---- MODULE Spec2Model ----
(***************************************************************************)
(* Flow control of the agent chatroom: the server's GlobalRateLimiter      *)
(* (global sliding window, per-identity token bucket, agent ratio cap),    *)
(* the POST /messages pipeline that calls it, the store's proactive turn   *)
(* lock, and the connector's ProactiveEngine, MentionIntelligence,         *)
(* ReplyStrategy and context compression.                                  *)
(*                                                                         *)
(* Time is Date.now() in milliseconds.  A bucket's real-valued token count *)
(* is kept in thousandths of a token (tokens * TokenScale), which is exact *)
(* because the refill is (elapsed ms / 1000) * REFILL_RATE.                *)
(***************************************************************************)
EXTENDS Integers, Sequences, FiniteSets, TLC

VARIABLES
    now,                     \* Date.now()
    agentMessageTimestamps,  \* GlobalRateLimiter.agentMessageTimestamps
    tokenBuckets,            \* GlobalRateLimiter.tokenBuckets (a Map: its domain are the keys)
    lastCall,                \* the last checkRateLimit call: its sender, its inputs' ratio verdict, its result
    admitted,                \* history: the timestamps of all accepted agent admissions
    ticks,                   \* how often the clock has advanced
    messages,                \* Store.messages
    members,                 \* Store.members (the names that have joined)
    lastMessageTime,         \* Store.lastMessageTime (a Map: its domain are the keys)
    response,                \* the last HTTP response of POST /messages
    proactiveLock,           \* Store.proactiveLock
    turnResult,              \* the last requestProactiveTurn call: its agent and its result
    grants,                  \* history: the times at which a turn was granted
    config,                  \* ProactiveEngine.config (enabled, cooldown)
    timer,                   \* ProactiveEngine.timer (TRUE: it holds a timer's handle)
    intervals,               \* the runtime's interval timers: set by setInterval, not yet cleared
    dailyCount,              \* ProactiveEngine.dailyCount
    lastProactiveTime,       \* ProactiveEngine.lastProactiveTime
    consecutiveNoReply,      \* ProactiveEngine.consecutiveNoReply
    lastDailyReset,          \* ProactiveEngine.lastDailyReset (the day's number; -1: '')
    inflight,                \* the checkAndSpeak invocations in progress, by the await each is at
    selfName,                \* the connector's own name (MentionIntelligence.agentName)
    strategy,                \* the ReplyStrategy: config, lastReplyTime, currentCooldown
    backoffMultiplier,       \* ReplyStrategy.backoffMultiplier
    rejections,              \* history: the recordRateLimit calls since the last resetBackoff
    eventSource,             \* ChatClient.eventSource: "none", or its readyState
    reconnectAttempts,       \* ChatClient.reconnectAttempts
    reconnectTimer,          \* ChatClient.reconnectTimer (a timer's number; 0: undefined)
    shouldReconnect,         \* ChatClient.shouldReconnect
    lastMessageTimestamp,    \* ChatClient.lastMessageTimestamp
    processedMessages,       \* chat-client's processedMessages (a Map: id to the time it was set)
    timeouts,                \* the runtime's pending timeouts: set by setTimeout, not fired or cleared
    stream,                  \* the message events written to the client's connection, not yet read
    catchUps,                \* the getMessages requests of _catchUpMessages that await their answer
    handled,                 \* history: the messages passed to messageHandler, with the time
    scheduled,               \* history: the reconnects scheduled so far
    missed,                  \* history: the ids stored while the client's connection was down
    args,                    \* the arguments of the last call of a connector function
    locals,                  \* the local variables of a call while it runs
    ret                      \* what that call returned

limiterVars == <<agentMessageTimestamps, tokenBuckets, lastCall, admitted>>
storeVars == <<messages, members, lastMessageTime, response>>
turnVars == <<proactiveLock, turnResult, grants>>
engineVars == <<config, timer, intervals, dailyCount, lastProactiveTime, consecutiveNoReply,
                lastDailyReset, inflight>>
clientVars == <<eventSource, reconnectAttempts, reconnectTimer, shouldReconnect,
                lastMessageTimestamp, processedMessages, timeouts, stream, catchUps,
                handled, scheduled, missed>>
connectorState == <<selfName, strategy, backoffMultiplier, rejections, clientVars>>
connectorVars == <<connectorState, args, locals, ret>>
vars == <<now, ticks, limiterVars, storeVars, turnVars, engineVars, connectorVars>>

(***************************** bounds **************************************)
\* The shared limiter is followed up to time MaxNow, one bucket for MaxBucketTicks
\* advances of the clock.
MaxNow == 60000
MaxBucketTicks == 3
\* The server is followed for MaxServerTicks advances of the clock and MaxMessages
\* stored messages.
MaxServerTicks == 2
MaxMessages == 4
\* The interval between a sender's messages is followed for MaxIntervalTicks advances
\* of the clock, runs of agent messages for MaxRoomTicks minutes.
MaxIntervalTicks == 1
\* The client's deduplication is followed for MaxDedupTicks steps of the clock,
\* MaxDedupIds new ids and MaxHandled calls of the handler.
MaxDedupTicks == 3
MaxDedupIds == 2
MaxHandled == 3
\* The client's stream is followed for MaxStreamTicks seconds, MaxStreamMessages
\* stored messages and MaxDrops opens and reconnects; the connection alone for
\* MaxScheduled opens and reconnects.
MaxStreamTicks == 1
MaxStreamMessages == 2
MaxDrops == 3
MaxScheduled == 8
MaxRoomTicks == 3
\* The turn lock is followed for MaxTurnTicks advances of the clock.
MaxTurnTicks == 4
\* The engine is followed for MaxEngineTicks intervals, with at most MaxInFlight
\* invocations of checkAndSpeak in progress at once.
MaxEngineTicks == 22
MaxInFlight == 2
\* shouldRespond is given at most MaxRecent recent messages.
MaxRecent == 3
\* The reply strategy is followed for MaxStrategyTicks advances of the clock.
MaxStrategyTicks == 3
\* compressContext is given a history of at most MaxHistory messages.
MaxHistory == 2
\* At most MaxRejections rejections are recorded in a row.
MaxRejections == 5
\* A cooldown is followed for MaxCooldownTicks steps of the clock.
MaxCooldownTicks == 3
\* The engagement backoff is followed for MaxEngageTicks timer intervals and up to
\* MaxNoReply checks without a reply in a row.
MaxEngageTicks == 2
MaxNoReply == 5
\* The engine's invocations are followed one by one for MaxLifeTicks intervals.
MaxLifeTicks == 3
\* The engine speaking through the client is followed for MaxSpeakTicks intervals.
MaxSpeakTicks == 4
\* The engines of a room are followed for MaxFleetTicks intervals.
MaxFleetTicks == 3
\* The running connector's engine is followed for MaxWiredTicks intervals.
MaxWiredTicks == 3
\* The message handler is followed for MaxDelivered messages and MaxHandlerTicks
\* advances of the clock.
MaxDelivered == 3
MaxHandlerTicks == 2
\* Two accounts of one process receive MaxAccountMessages messages within
\* MaxAccountTicks seconds.
MaxAccountMessages == 2
MaxAccountTicks == 2

(************************* program constants *******************************)
MAX_AGENT_MESSAGES_PER_MINUTE == 15
BUCKET_CAPACITY == 5
REFILL_RATE == 1
WindowMs == 60000
TokenScale == 1000
RatioRetryAfter == 5000
MinInterval == 5000
MaxConsecutiveAgents == 3
ServerStart == 100000
LockMs == 30000
checkInterval == 30000
DefaultCooldown == 300000
maxDailyPerAgent == 20
maxDailyGlobal == 50
MaxCooldown == 1800000
DayMs == 86400000
EngineStart == 86400000
\* Math.random() and replyProbability are kept in hundredths.
RandomScale == 100
DefaultReplyProbability == 90
cooldownMin == 5000
cooldownMax == 15000
MESSAGE_DEDUP_TTL == 300000
CleanupSize == 100
maxReconnectDelay == 30000
CatchUpLimit == 20
DefaultMaxTokens == 2000
DefaultMaxDepth == 5
FiveMinutes == 300000
CompressionTime == 1000000
\* The ceiling of the backoff multiplier.
MaxBackoffMultiplier == 8

Agents == {"a1", "a2", "a3"}
Humans == {"h1"}
Identities == Agents \cup Humans

SenderTypeOf(s) == IF s \in Humans THEN "human" ELSE "agent"

Min(a, b) == IF a < b THEN a ELSE b

\* A result without reason / retryAfter carries "none" / -1 (undefined in the source).
Result(allowed, reason, retryAfter) ==
    [allowed |-> allowed, reason |-> reason, retryAfter |-> retryAfter]

Allowed == Result(TRUE, "none", -1)

(************************** GlobalRateLimiter ******************************)

\* senderType === 'human'
IsHumanNever(senderType) == FALSE

IsHuman(senderType) == senderType = "human"

\* agentMessageTimestamps.filter(ts => now - ts < 60000)
PruneWindowShort(ts, t) == SelectSeq(ts, LAMBDA x : t - x < WindowMs - 1000)

PruneWindow(ts, t) == SelectSeq(ts, LAMBDA x : t - x < WindowMs)

\* agentMessageTimestamps.length >= MAX_AGENT_MESSAGES_PER_MINUTE
WindowFull(pruned) == Len(pruned) >= MAX_AGENT_MESSAGES_PER_MINUTE

\* retryAfter = 60000 - (now - oldestTimestamp), the oldest being the first entry
GlobalRetryAfterNewest(pruned, t) == WindowMs - (t - pruned[Len(pruned)])

GlobalRetryAfter(pruned, t) == WindowMs - (t - pruned[1])

\* checkTokenBucket: create the bucket when missing, then refill it lazily.
RefilledBucketNoClamp(buckets, sender, t) ==
    LET b == IF sender \in DOMAIN buckets
             THEN buckets[sender]
             ELSE [tokens |-> BUCKET_CAPACITY * TokenScale, lastRefill |-> t]
    IN  [tokens |-> b.tokens + (t - b.lastRefill) * REFILL_RATE, lastRefill |-> t]

RefilledBucket(buckets, sender, t) ==
    LET b == IF sender \in DOMAIN buckets
             THEN buckets[sender]
             ELSE [tokens |-> BUCKET_CAPACITY * TokenScale, lastRefill |-> t]
    IN  [tokens |-> Min(BUCKET_CAPACITY * TokenScale,
                        b.tokens + (t - b.lastRefill) * REFILL_RATE),
         lastRefill |-> t]

\* a refill that moves lastRefill but leaves the stored tokens as they were
SetBucketKeepsTokens(buckets, sender, b) ==
    [s \in (DOMAIN buckets) \cup {sender} |->
        IF s # sender THEN buckets[s]
        ELSE IF sender \in DOMAIN buckets THEN [b EXCEPT !.tokens = buckets[sender].tokens]
        ELSE b]

\* tokenBuckets.set(sender, bucket); the refill writes into the stored bucket
SetBucket(buckets, sender, b) ==
    [s \in (DOMAIN buckets) \cup {sender} |-> IF s = sender THEN b ELSE buckets[s]]

\* checkTokenBucket's result for the refilled bucket b:
\* retryAfter = ceil((1 - tokens) / REFILL_RATE * 1000)
BucketResultAnyToken(b) ==
    IF b.tokens <= 0
    THEN Result(FALSE, "bucket", (1 * TokenScale - b.tokens) \div REFILL_RATE)
    ELSE Allowed

BucketResult(b) ==
    IF b.tokens < 1 * TokenScale
    THEN Result(FALSE, "bucket", (1 * TokenScale - b.tokens) \div REFILL_RATE)
    ELSE Allowed

\* consumeToken
ConsumeTokenTwice(buckets, sender) ==
    IF sender \in DOMAIN buckets /\ buckets[sender].tokens >= 1 * TokenScale
    THEN [buckets EXCEPT ![sender].tokens = @ - 2 * TokenScale]
    ELSE buckets

ConsumeToken(buckets, sender) ==
    IF sender \in DOMAIN buckets /\ buckets[sender].tokens >= 1 * TokenScale
    THEN [buckets EXCEPT ![sender].tokens = @ - 1 * TokenScale]
    ELSE buckets

\* Check 3: the messages of the trailing 60 s, and whether agents exceed 70% of them.
RecentMessagesFlipped(allMessages, t) ==
    SelectSeq(allMessages, LAMBDA m : m.timestamp < t - WindowMs)

RecentMessages(allMessages, t) ==
    SelectSeq(allMessages, LAMBDA m : m.timestamp > t - WindowMs)

AgentCount(msgs) == Len(SelectSeq(msgs, LAMBDA m : m.senderType = "agent"))

\* a ratio check that needs a human message among the recent ones
RatioExceededNeedsHuman(allMessages, t) ==
    LET recent == RecentMessages(allMessages, t)
    IN  AgentCount(recent) < Len(recent) /\ AgentCount(recent) * 10 > 7 * Len(recent)

RatioExceeded(allMessages, t) ==
    LET recent == RecentMessages(allMessages, t)
    IN  Len(recent) > 0 /\ AgentCount(recent) * 10 > 7 * Len(recent)

\* checkRateLimit with checks 2 and 3 in the other order
RateLimitOutcomeRatioFirst(window, buckets, sender, senderType, allMessages, t) ==
    IF IsHuman(senderType)
    THEN [result |-> Allowed, window |-> window, buckets |-> buckets]
    ELSE
      LET pruned == PruneWindow(window, t) IN
      IF WindowFull(pruned)
      THEN [result |-> Result(FALSE, "global", GlobalRetryAfter(pruned, t)),
            window |-> pruned, buckets |-> buckets]
      ELSE
        LET b == RefilledBucket(buckets, sender, t)
            refilled == SetBucket(buckets, sender, b)
        IN
        IF RatioExceeded(allMessages, t)
        THEN [result |-> Result(FALSE, "ratio", RatioRetryAfter),
              window |-> pruned, buckets |-> buckets]
        ELSE IF ~BucketResult(b).allowed
        THEN [result |-> BucketResult(b), window |-> pruned, buckets |-> refilled]
        ELSE [result |-> Allowed,
              window |-> Append(pruned, t),
              buckets |-> ConsumeToken(refilled, sender)]

\* checkRateLimit(sender, senderType, allMessages) at time t from limiter state
\* (window, buckets): the result and the limiter state it leaves.
RateLimitOutcome(window, buckets, sender, senderType, allMessages, t) ==
    IF IsHuman(senderType)
    THEN [result |-> Allowed, window |-> window, buckets |-> buckets]
    ELSE
      LET pruned == PruneWindow(window, t) IN
      IF WindowFull(pruned)
      THEN [result |-> Result(FALSE, "global", GlobalRetryAfter(pruned, t)),
            window |-> pruned, buckets |-> buckets]
      ELSE
        LET b == RefilledBucket(buckets, sender, t)
            refilled == SetBucket(buckets, sender, b)
        IN
        IF ~BucketResult(b).allowed
        THEN [result |-> BucketResult(b), window |-> pruned, buckets |-> refilled]
        ELSE IF RatioExceeded(allMessages, t)
        THEN [result |-> Result(FALSE, "ratio", RatioRetryAfter),
              window |-> pruned, buckets |-> refilled]
        ELSE [result |-> Allowed,
              window |-> Append(pruned, t),
              buckets |-> ConsumeToken(refilled, sender)]

(***************************** the connector *******************************)

\* The connector's name in the room.
Self == "TestBot"

NoArgs == [fn |-> "none"]

\* StrategyConfig
StrategyConfig(replyProbability, mentionAlwaysReply) ==
    [agentName |-> Self, replyProbability |-> replyProbability,
     mentionAlwaysReply |-> mentionAlwaysReply,
     cooldownMin |-> cooldownMin, cooldownMax |-> cooldownMax]

\* new ReplyStrategy(config)
NewReplyStrategy(cfg) == [config |-> cfg, lastReplyTime |-> 0, currentCooldown |-> 0]

\* The connector's state after construction, with the plugin's default settings.
\* The ChatClient after its constructor, and the module's empty processedMessages.
InitClient ==
    /\ eventSource = "none"
    /\ reconnectAttempts = 0
    /\ reconnectTimer = 0
    /\ shouldReconnect = TRUE
    /\ lastMessageTimestamp = 0
    /\ processedMessages = <<>>
    /\ timeouts = {}
    /\ stream = <<>>
    /\ catchUps = <<>>
    /\ handled = <<>>
    /\ scheduled = <<>>
    /\ missed = {}

InitReplyState ==
    /\ selfName = Self
    /\ strategy = NewReplyStrategy(StrategyConfig(DefaultReplyProbability, TRUE))
    /\ backoffMultiplier = 1
    /\ rejections = 0

InitConnectorState == InitReplyState /\ InitClient

\* The connector's components after construction; no call has been made.
InitConnector ==
    /\ InitConnectorState
    /\ args = NoArgs
    /\ locals = NoArgs
    /\ ret = NoArgs

(************************** ProactiveEngine ********************************)

Awaits == {"activity", "turn", "topic", "speak"}

\* The state after the constructor, for a given configuration.
InitEngine(cfg) ==
    /\ config = cfg
    /\ timer = FALSE
    /\ intervals = 0
    /\ dailyCount = 0
    /\ lastProactiveTime = 0
    /\ consecutiveNoReply = 0
    /\ lastDailyReset = -1
    /\ inflight = [a \in Awaits |-> 0]

\* new Date().toDateString(): the calendar day of time t
Today(t) == t \div DayMs

RECURSIVE Pow2(_)
Pow2(k) == IF k = 0 THEN 1 ELSE 2 * Pow2(k - 1)

\* getCurrentCooldown
GetCurrentCooldownUncapped == config.cooldown * Pow2(consecutiveNoReply)

GetCurrentCooldown == Min(config.cooldown * Pow2(consecutiveNoReply), MaxCooldown)

InFlight == inflight["activity"] + inflight["turn"] + inflight["topic"] + inflight["speak"]

\* start() without the test for a timer that is already set
StartNoRunningCheck ==
    /\ IF config.enabled
       THEN timer' = TRUE /\ intervals' = intervals + 1
       ELSE UNCHANGED <<timer, intervals>>
    /\ UNCHANGED <<config, dailyCount, lastProactiveTime, consecutiveNoReply,
                   lastDailyReset, inflight>>

\* start(): a disabled engine and one whose timer is set return at once; else
\* setInterval sets a timer and this.timer holds its handle.
Start ==
    /\ IF config.enabled /\ ~timer
       THEN timer' = TRUE /\ intervals' = intervals + 1
       ELSE UNCHANGED <<timer, intervals>>
    /\ UNCHANGED <<config, dailyCount, lastProactiveTime, consecutiveNoReply,
                   lastDailyReset, inflight>>

\* stop(): clearInterval clears the timer this.timer holds; nothing without one.
Stop ==
    /\ IF timer
       THEN timer' = FALSE /\ intervals' = intervals - 1
       ELSE UNCHANGED <<timer, intervals>>
    /\ UNCHANGED <<config, dailyCount, lastProactiveTime, consecutiveNoReply,
                   lastDailyReset, inflight>>

\* dailyCount >= maxDailyPerAgent
DailyLimitReached(count) == count >= maxDailyPerAgent

\* checkAndSpeak up to its first await, at time t: the daily reset, the daily limit
\* and the cooldown; when all pass the invocation awaits fetchActivity.
CheckAndSpeak(t) ==
    LET count == IF lastDailyReset # Today(t) THEN 0 ELSE dailyCount IN
    /\ dailyCount' = count
    /\ lastDailyReset' = Today(t)
    /\ inflight' = IF \/ DailyLimitReached(count)
                      \/ t - lastProactiveTime < GetCurrentCooldown
                   THEN inflight
                   ELSE [inflight EXCEPT !["activity"] = @ + 1]
    /\ UNCHANGED <<config, timer, intervals, lastProactiveTime, consecutiveNoReply>>

\* checkInterval elapses; an interval timer of the runtime fires and calls
\* checkAndSpeak.
IntervalElapses ==
    /\ now' = now + checkInterval
    /\ ticks' = ticks + 1
    /\ IF intervals > 0 THEN CheckAndSpeak(now') ELSE UNCHANGED engineVars

CheckEngagementCountsSelf(recentMessages) ==
    LET repliesAfterProactive ==
            SelectSeq(recentMessages, LAMBDA m : m.timestamp > lastProactiveTime)
    IN /\ consecutiveNoReply' =
              IF lastProactiveTime = 0 THEN consecutiveNoReply
              ELSE IF Len(repliesAfterProactive) = 0 THEN consecutiveNoReply + 1
              ELSE 0
       /\ UNCHANGED <<config, timer, intervals, dailyCount, lastProactiveTime, lastDailyReset, inflight>>

\* checkEngagement(recentMessages)
CheckEngagement(recentMessages) ==
    LET repliesAfterProactive ==
            SelectSeq(recentMessages, LAMBDA m :
                m.timestamp > lastProactiveTime /\ m.sender # Self)
    IN /\ consecutiveNoReply' =
              IF lastProactiveTime = 0 THEN consecutiveNoReply
              ELSE IF Len(repliesAfterProactive) = 0 THEN consecutiveNoReply + 1
              ELSE 0
       /\ UNCHANGED <<config, timer, intervals, dailyCount, lastProactiveTime, lastDailyReset, inflight>>

\* An awaited call of an invocation settles: it goes on to the next await (to) or
\* the invocation returns (to = "done").
Settle(from, to) ==
    /\ inflight[from] > 0
    /\ inflight' = [a \in Awaits |->
                       inflight[a] - (IF a = from THEN 1 ELSE 0) + (IF a = to THEN 1 ELSE 0)]

\* fetchActivity resolves with isIdle, or throws.
ActivityReply(isIdle, throws) ==
    /\ Settle("activity", IF isIdle /\ ~throws THEN "turn" ELSE "done")
    /\ UNCHANGED <<config, timer, intervals, dailyCount, lastProactiveTime, consecutiveNoReply,
                   lastDailyReset>>

\* requestTurn resolves with a body whose granted is true or not (false, or
\* missing), or throws.
TurnReply(granted, throws) ==
    /\ Settle("turn", IF granted /\ ~throws THEN "topic" ELSE "done")
    /\ UNCHANGED <<config, timer, intervals, dailyCount, lastProactiveTime, consecutiveNoReply,
                   lastDailyReset>>

\* the topic is not looked at
TopicReplyIgnoresSkip(skip, throws) ==
    /\ Settle("topic", IF ~throws THEN "speak" ELSE "done")
    /\ UNCHANGED <<config, timer, intervals, dailyCount, lastProactiveTime, consecutiveNoReply,
                   lastDailyReset>>

\* onGenerateTopic resolves with a topic, or with '' or '[SKIP]' (skip), or throws.
TopicReply(skip, throws) ==
    /\ Settle("topic", IF ~skip /\ ~throws THEN "speak" ELSE "done")
    /\ UNCHANGED <<config, timer, intervals, dailyCount, lastProactiveTime, consecutiveNoReply,
                   lastDailyReset>>

\* the count and the time are set whether onSpeak resolved or threw
SpeakDoneCountsFailure(throws) ==
    /\ Settle("speak", "done")
    /\ dailyCount' = dailyCount + 1
    /\ lastProactiveTime' = now
    /\ UNCHANGED <<config, timer, intervals, consecutiveNoReply, lastDailyReset>>

\* onSpeak resolves (the message is out), or throws.
SpeakDone(throws) ==
    /\ Settle("speak", "done")
    /\ dailyCount' = IF throws THEN dailyCount ELSE dailyCount + 1
    /\ lastProactiveTime' = IF throws THEN lastProactiveTime ELSE now
    /\ UNCHANGED <<config, timer, intervals, consecutiveNoReply, lastDailyReset>>

(*********************** Store: proactive turn lock ************************)

NoLock == [agent |-> "none", until |-> 0]      \* proactiveLock = null
NoTurn == [agent |-> "none", granted |-> FALSE, lockUntil |-> -1]

InitTurn ==
    /\ proactiveLock = NoLock
    /\ turnResult = NoTurn
    /\ grants = <<>>

\* this.proactiveLock && this.proactiveLock.until > now
LockActiveForOthers(lock, agentName, t) ==
    lock # NoLock /\ lock.until > t /\ lock.agent # agentName

LockActive(lock, agentName, t) == lock # NoLock /\ lock.until > t

\* Store.requestProactiveTurn(agentName)
RequestProactiveTurn(agentName) ==
    /\ IF LockActive(proactiveLock, agentName, now)
       THEN /\ turnResult' = [agent |-> agentName, granted |-> FALSE, lockUntil |-> -1]
            /\ UNCHANGED <<proactiveLock, grants>>
       ELSE /\ proactiveLock' = [agent |-> agentName, until |-> now + LockMs]
            /\ turnResult' = [agent |-> agentName, granted |-> TRUE, lockUntil |-> now + LockMs]
            /\ grants' = Append(grants, now)
    /\ UNCHANGED <<now, ticks, limiterVars, storeVars, engineVars, connectorVars>>

(********************* the limiter on its own ******************************)

\* Message lists handed to checkRateLimit as allMessages (sender type and timestamp
\* are all it reads): n agent messages then h human messages, all stamped at.
Msg(sender, senderType, timestamp) ==
    [sender |-> sender, senderType |-> senderType, timestamp |-> timestamp]

MsgList(n, h, at) ==
    [i \in 1..(n + h) |-> IF i <= n THEN Msg("a1", "agent", at) ELSE Msg("h1", "human", at)]

MsgInputs(t) ==
    { <<>>,                          \* empty room
      MsgList(7, 3, t - 30000),      \* exactly 70% agents: not above the cap
      MsgList(8, 2, t - 30000),      \* 80% agents
      MsgList(8, 2, t - WindowMs) }  \* 80% agents, but no longer in the trailing 60 s

NoResponse == [status |-> 0, error |-> "none", retryAfter |-> -1]

NoCall == [senderType |-> "none", ratioExceeded |-> FALSE, result |-> Allowed]

InitRL ==
    /\ now = 0
    /\ agentMessageTimestamps = <<>>
    /\ tokenBuckets = <<>>
    /\ lastCall = NoCall
    /\ admitted = <<>>
    /\ ticks = 0
    /\ messages = <<>>
    /\ members = {}
    /\ lastMessageTime = <<>>
    /\ response = NoResponse
    /\ InitTurn
    /\ InitEngine([enabled |-> FALSE, cooldown |-> DefaultCooldown])
    /\ InitConnector

\* Time passes; the result of the last call has been returned.
Advance(d) ==
    /\ now' = now + d
    /\ ticks' = ticks + 1
    /\ lastCall' = NoCall
    /\ response' = NoResponse
    /\ UNCHANGED <<agentMessageTimestamps, tokenBuckets, admitted>>
    /\ UNCHANGED <<messages, members, lastMessageTime>>
    /\ UNCHANGED <<turnVars, engineVars, connectorVars>>

\* One call of globalRateLimiter.checkRateLimit(sender, senderType, allMessages).
CheckRateLimit(sender, allMessages) ==
    LET out == RateLimitOutcome(agentMessageTimestamps, tokenBuckets, sender,
                                SenderTypeOf(sender), allMessages, now)
    IN  /\ agentMessageTimestamps' = out.window
        /\ tokenBuckets' = out.buckets
        /\ lastCall' = [senderType |-> SenderTypeOf(sender),
                        ratioExceeded |-> RatioExceeded(allMessages, now),
                        result |-> out.result]
        /\ admitted' = IF SenderTypeOf(sender) = "agent" /\ out.result.allowed
                       THEN Append(admitted, now)
                       ELSE admitted
        /\ UNCHANGED <<now, ticks, storeVars, turnVars, engineVars, connectorVars>>

\* Many identities share the limiter: the clock jumps by almost one window, or by one.
StepsRL == {59000, 60000}

TickRL == \E d \in StepsRL : now + d <= MaxNow /\ Advance(d)

MsgInputsRL(t) == { <<>>, MsgList(8, 2, t - 30000) }

CallLimiter == \E s \in Identities : \E ms \in MsgInputsRL(now) : CheckRateLimit(s, ms)

NextRL == TickRL \/ CallLimiter

SpecRL == InitRL /\ [][NextRL]_vars

\* One identity's bucket, on a fine clock.
StepsBucket == {500, 5000}

TickBucket == \E d \in StepsBucket : ticks < MaxBucketTicks /\ Advance(d)

CallBucket == \E s \in {"a1", "h1"} : \E ms \in MsgInputs(now) : CheckRateLimit(s, ms)

NextBucket == TickBucket \/ CallBucket

SpecBucket == InitRL /\ [][NextBucket]_vars

(***************************** chat server *********************************)

\* the comparison the other way round
StoreCheckRateLimitInverted(sender, minInterval, t) ==
    IF sender \notin DOMAIN lastMessageTime \/ lastMessageTime[sender] = 0
    THEN [allowed |-> TRUE, retryAfter |-> 0]
    ELSE LET elapsed == t - lastMessageTime[sender]
         IN  [allowed |-> elapsed <= minInterval,
              retryAfter |-> IF elapsed <= minInterval THEN 0 ELSE minInterval - elapsed]

\* Store.checkRateLimit(sender, minInterval): a missing (or zero) last time passes.
StoreCheckRateLimit(sender, minInterval, t) ==
    IF sender \notin DOMAIN lastMessageTime \/ lastMessageTime[sender] = 0
    THEN [allowed |-> TRUE, retryAfter |-> 0]
    ELSE LET elapsed == t - lastMessageTime[sender]
         IN  [allowed |-> elapsed >= minInterval,
              retryAfter |-> IF elapsed >= minInterval THEN 0 ELSE minInterval - elapsed]

\* the loop stops before the first message of the log (i > 0)
RECURSIVE ConsecutiveAgentCountSkipsFirst(_)
ConsecutiveAgentCountSkipsFirst(msgs) ==
    IF Len(msgs) <= 1 \/ msgs[Len(msgs)].senderType # "agent"
    THEN 0
    ELSE 1 + ConsecutiveAgentCountSkipsFirst(SubSeq(msgs, 1, Len(msgs) - 1))

\* Store.getConsecutiveAgentCount: the run of agent messages at the end of the log.
RECURSIVE ConsecutiveAgentCount(_)
ConsecutiveAgentCount(msgs) ==
    IF Len(msgs) = 0 \/ msgs[Len(msgs)].senderType # "agent"
    THEN 0
    ELSE 1 + ConsecutiveAgentCount(SubSeq(msgs, 1, Len(msgs) - 1))

\* Store.addMember: a name joins once.
Join(name) ==
    /\ members' = members \cup {name}
    /\ UNCHANGED <<now, ticks, limiterVars, messages, lastMessageTime, response, turnVars, engineVars, connectorVars>>

Respond(status, error, retryAfter) ==
    [status |-> status, error |-> error, retryAfter |-> retryAfter]

\* POST /messages.  content stands for the request body's content: "empty" (missing),
\* "spam" (validateMessage refuses it) or "ok".  No member is muted (the admin API
\* is not part of the model).
PostMessages(sender, content, isMentionReply) ==
    LET senderType == SenderTypeOf(sender)
        out == RateLimitOutcome(agentMessageTimestamps, tokenBuckets, sender,
                                senderType, messages, now)
        old == StoreCheckRateLimit(sender, MinInterval, now)
        reached == content = "ok" /\ sender \in members   \* the limiter is called
        stored == /\ reached
                  /\ out.result.allowed
                  /\ ((isMentionReply /\ senderType = "agent") \/ old.allowed)
                  /\ ~(/\ senderType = "agent"
                       /\ ~isMentionReply
                       /\ ConsecutiveAgentCount(messages) >= MaxConsecutiveAgents)
    IN
    /\ Len(messages) < MaxMessages
    /\ response' =
         IF content = "empty" THEN Respond(400, "missing", -1)
         ELSE IF sender \notin members THEN Respond(404, "not_member", -1)
         ELSE IF content = "spam" THEN Respond(400, "validation", -1)
         ELSE IF ~out.result.allowed THEN Respond(429, out.result.reason, out.result.retryAfter)
         ELSE IF ~(isMentionReply /\ senderType = "agent") /\ ~old.allowed
              THEN Respond(429, "interval", old.retryAfter)
         ELSE IF ~stored THEN Respond(429, "consecutive", -1)
         ELSE Respond(201, "none", -1)
    /\ agentMessageTimestamps' = IF reached THEN out.window ELSE agentMessageTimestamps
    /\ tokenBuckets' = IF reached THEN out.buckets ELSE tokenBuckets
    /\ lastCall' = IF reached
                   THEN [senderType |-> senderType,
                         ratioExceeded |-> RatioExceeded(messages, now),
                         result |-> out.result]
                   ELSE NoCall
    /\ admitted' = IF reached /\ senderType = "agent" /\ out.result.allowed
                   THEN Append(admitted, now)
                   ELSE admitted
    /\ messages' = IF stored THEN Append(messages, Msg(sender, senderType, now)) ELSE messages
    /\ lastMessageTime' =
         IF stored
         THEN [s \in (DOMAIN lastMessageTime) \cup {sender} |->
                  IF s = sender THEN now ELSE lastMessageTime[s]]
         ELSE lastMessageTime
    /\ UNCHANGED <<now, ticks, members, turnVars, engineVars, connectorState, ret>>

ServerIdentities == {"a1", "h1"}
Contents == {"empty", "spam", "ok"}
StepsServer == {5000, 60000}

InitServer ==
    /\ now = ServerStart
    /\ agentMessageTimestamps = <<>>
    /\ tokenBuckets = <<>>
    /\ lastCall = NoCall
    /\ admitted = <<>>
    /\ ticks = 0
    /\ messages = <<>>
    /\ members = {}
    /\ lastMessageTime = <<>>
    /\ response = NoResponse
    /\ InitTurn
    /\ InitEngine([enabled |-> FALSE, cooldown |-> DefaultCooldown])
    /\ InitConnector

TickServer == \E d \in StepsServer : ticks < MaxServerTicks /\ Advance(d)

JoinRoom == \E name \in ServerIdentities : Join(name)

Post == \E sender \in ServerIdentities : \E content \in Contents : \E isMentionReply \in BOOLEAN :
            PostMessages(sender, content, isMentionReply) /\ UNCHANGED <<args, locals>>

NextServer == TickServer \/ JoinRoom \/ Post

SpecServer == InitServer /\ [][NextServer]_vars

(********************** the room's anti-spam checks ************************)

\* The agent and the human have joined; nothing has been posted.
InitRoom ==
    /\ now = ServerStart
    /\ agentMessageTimestamps = <<>>
    /\ tokenBuckets = <<>>
    /\ lastCall = NoCall
    /\ admitted = <<>>
    /\ ticks = 0
    /\ messages = <<>>
    /\ members = ServerIdentities
    /\ lastMessageTime = <<>>
    /\ response = NoResponse
    /\ InitTurn
    /\ InitEngine([enabled |-> FALSE, cooldown |-> DefaultCooldown])
    /\ InitConnectorState
    /\ args = NoArgs
    /\ locals = <<>>
    /\ ret = NoArgs

TickRoom == \E d \in StepsServer : ticks < MaxIntervalTicks /\ Advance(d)

\* A member's request to POST /messages with a valid content.  The request is
\* noted in args, and locals keeps the isMentionReply flag each stored message
\* came with.
PostRoom ==
    \E sender \in ServerIdentities : \E isMentionReply \in BOOLEAN :
        /\ PostMessages(sender, "ok", isMentionReply)
        /\ args' = [fn |-> "postMessages", sender |-> sender,
                    isMentionReply |-> isMentionReply]
        /\ locals' = IF Len(messages') > Len(messages)
                     THEN Append(locals, isMentionReply)
                     ELSE locals

NextRoom == TickRoom \/ PostRoom

SpecRoom == InitRoom /\ [][NextRoom]_vars

\* The same room with the clock advancing by whole windows of the limiter, so
\* that earlier messages have left the trailing minute.
TickMinute == ticks < MaxRoomTicks /\ Advance(WindowMs)

\* A request to POST /messages; isMentionReply is set by agents only.  locals
\* keeps the flag each stored message came with.
PostRun ==
    \E sender \in ServerIdentities :
        \E isMentionReply \in (IF SenderTypeOf(sender) = "agent" THEN BOOLEAN ELSE {FALSE}) :
            /\ PostMessages(sender, "ok", isMentionReply)
            /\ locals' = IF Len(messages') > Len(messages)
                         THEN Append(locals, isMentionReply)
                         ELSE locals
            /\ UNCHANGED args

NextRun == TickMinute \/ PostRun

SpecRun == InitRoom /\ [][NextRun]_vars

(************************ the turn lock on its own *************************)

StepsTurn == {1000, 29000, 30000}

TickTurn == \E d \in StepsTurn : ticks < MaxTurnTicks /\ Advance(d)

RequestTurn == \E agentName \in Agents : RequestProactiveTurn(agentName)

NextTurn == TickTurn \/ RequestTurn

SpecTurn == InitServer /\ [][NextTurn]_vars

(************************* the engine on its own **************************)

\* proactiveCooldown is the deployment's setting (default 300000).
Cooldowns == {checkInterval, DefaultCooldown}

\* The engine is constructed shortly before midnight, or at the start of a day.
InitPE ==
    /\ now \in {EngineStart - 2 * checkInterval, EngineStart}
    /\ ticks = 0
    /\ agentMessageTimestamps = <<>>
    /\ tokenBuckets = <<>>
    /\ lastCall = NoCall
    /\ admitted = <<>>
    /\ messages = <<>>
    /\ members = {}
    /\ lastMessageTime = <<>>
    /\ response = NoResponse
    /\ InitTurn
    /\ \E enabled \in BOOLEAN : \E cooldown \in Cooldowns :
           InitEngine([enabled |-> enabled, cooldown |-> cooldown])
    /\ InitConnector

EngineStep(A) == A /\ UNCHANGED <<now, ticks, limiterVars, storeVars, turnVars, connectorVars>>

TimerTick ==
    /\ ticks < MaxEngineTicks
    /\ InFlight < MaxInFlight
    /\ IntervalElapses
    /\ UNCHANGED <<limiterVars, storeVars, turnVars, connectorVars>>

StartEngine == EngineStep(Start)
StopEngine == EngineStep(Stop)
Activity == \E isIdle \in BOOLEAN : \E throws \in BOOLEAN : EngineStep(ActivityReply(isIdle, throws))
Turn == \E granted \in BOOLEAN : \E throws \in BOOLEAN : EngineStep(TurnReply(granted, throws))
Topic == \E skip \in BOOLEAN : \E throws \in BOOLEAN : EngineStep(TopicReply(skip, throws))
Speak == \E throws \in BOOLEAN : EngineStep(SpeakDone(throws))

NextPE == TimerTick \/ StartEngine \/ StopEngine \/ Activity \/ Turn \/ Topic \/ Speak

SpecPE == InitPE /\ [][NextPE]_vars

(************************** MentionIntelligence ****************************)

\* A room message as the connector sees it (replyTo "none": no replyTo).
ChatMessage(id, sender, senderType, mentions, replyTo) ==
    [id |-> id, sender |-> sender, senderType |-> senderType, mentions |-> mentions,
     replyTo |-> replyTo]

\* RespondDecision (replyTo "none": the field is absent)
RespondDecision(respond, reason, replyTo) ==
    [respond |-> respond, reason |-> reason, replyTo |-> replyTo]

\* getAgentReplyCount
GetAgentReplyCountAnySender(messageId, msgs) ==
    Len(SelectSeq(msgs, LAMBDA m : m.replyTo = messageId))

GetAgentReplyCount(messageId, msgs) ==
    Len(SelectSeq(msgs, LAMBDA m : m.replyTo = messageId /\ m.senderType = "agent"))

\* context.memberList.find(m => m.name === name)?.isNew
SenderIsNew(memberList, name) ==
    LET found == SelectSeq(memberList, LAMBDA m : m.name = name) IN
    Len(found) > 0 /\ found[1].isNew

\* shouldRespond
ShouldRespondSaturationFirst(name, msg, context, recentMessages) ==
    IF GetAgentReplyCount(msg.id, recentMessages) >= 2
    THEN RespondDecision(FALSE, "reply_saturation", "none")
    ELSE IF name \in msg.mentions
    THEN RespondDecision(TRUE, "directly_mentioned", msg.id)
    ELSE RespondDecision(TRUE, "general", "none")

ShouldRespond(name, msg, context, recentMessages) ==
    IF name \in msg.mentions
    THEN RespondDecision(TRUE, "directly_mentioned", msg.id)
    ELSE IF GetAgentReplyCount(msg.id, recentMessages) >= 2
    THEN RespondDecision(FALSE, "reply_saturation", "none")
    ELSE IF /\ context.ongoingThread.present
            /\ name \notin context.ongoingThread.participants
    THEN RespondDecision(FALSE, "ongoing_thread", "none")
    ELSE IF /\ SenderIsNew(context.memberList, msg.sender)
            /\ Len(SelectSeq(recentMessages, LAMBDA m : m.sender = msg.sender)) <= 1
    THEN RespondDecision(TRUE, "new_member_greeting", msg.id)
    ELSE RespondDecision(TRUE, "general", "none")

MISenderType(s) == IF s \in {"BotA", "BotB"} THEN "agent" ELSE "human"

\* The trigger: from a human or an agent, mentioning any of the connector and BotA.
MITriggers ==
    {ChatMessage("msg1", s, MISenderType(s), mentions, "none") :
        s \in {"Alice", "BotA"}, mentions \in SUBSET {Self, "BotA"}}

\* The recent messages: each from Alice, BotA or BotB, a reply to the trigger or not.
MIRecentPool ==
    {ChatMessage("other", s, MISenderType(s), {}, replyTo) :
        s \in {"Alice", "BotA", "BotB"}, replyTo \in {"msg1", "none"}}

\* conversationDynamics.ongoingThread: absent, with the connector in it, without it.
MIThreads ==
    {[present |-> FALSE, participants |-> {}],
     [present |-> TRUE, participants |-> {Self, "Alice"}],
     [present |-> TRUE, participants |-> {"Alice", "BotA"}]}

\* memberList: without the sender, or with the sender flagged new or not, alone or
\* after another (new) member.
MIMemberLists(sender) ==
    {<<>>} \cup
    {<<[name |-> sender, isNew |-> isNew]>> : isNew \in BOOLEAN} \cup
    {<<[name |-> "Bob", isNew |-> TRUE], [name |-> sender, isNew |-> isNew]>> : isNew \in BOOLEAN}

\* Everything but the connector's variables, as constructed and left alone.
InitServerSide ==
    /\ ticks = 0
    /\ agentMessageTimestamps = <<>>
    /\ tokenBuckets = <<>>
    /\ lastCall = NoCall
    /\ admitted = <<>>
    /\ messages = <<>>
    /\ members = {}
    /\ lastMessageTime = <<>>
    /\ response = NoResponse
    /\ InitTurn

InitOthersButNow ==
    /\ InitServerSide
    /\ InitEngine([enabled |-> FALSE, cooldown |-> DefaultCooldown])

InitOthers == now = 0 /\ InitOthersButNow

OthersUnchanged ==
    UNCHANGED <<now, ticks, limiterVars, storeVars, turnVars, engineVars, clientVars>>

\* new MentionIntelligence(agentName), and the arguments of the call to come.
InitMI ==
    /\ InitOthers
    /\ InitConnectorState
    /\ \E msg \in MITriggers : \E thread \in MIThreads :
       \E memberList \in UNION {MIMemberLists(sender) : sender \in {"Alice", "BotA"}} :
       \E k \in 0..MaxRecent : \E recent \in [1..k -> MIRecentPool] :
           args = [fn |-> "shouldRespond", msg |-> msg,
                   context |-> [memberList |-> memberList, ongoingThread |-> thread],
                   recentMessages |-> recent]
    /\ locals = NoArgs
    /\ ret = NoArgs

\* intel.shouldRespond(msg, context, recentMessages)
CallShouldRespond ==
    /\ args.fn = "shouldRespond"
    /\ ret = NoArgs
    /\ ret' = [fn |-> "shouldRespond",
               value |-> ShouldRespond(selfName, args.msg, args.context, args.recentMessages)]
    /\ UNCHANGED <<connectorState, args, locals>>
    /\ OthersUnchanged

NextMI == CallShouldRespond

SpecMI == InitMI /\ [][NextMI]_vars

(***************************** ReplyStrategy *******************************)

\* String.prototype.toLowerCase on the names in use
ToLowerCase(name) ==
    CASE name \in {"TestBot", "testbot", "TESTBOT"} -> "testbot"
      [] name \in {"Alice", "alice"} -> "alice"
      [] OTHER -> name

\* The values Math.random() may return, in hundredths.
Randoms == {0, 50, 99}

\* isMentioned
IsMentioned(s, msg) ==
    \E mention \in msg.mentions : ToLowerCase(mention) = ToLowerCase(s.config.agentName)

\* isInCooldown at time t
IsInCooldown(s, t) == t - s.lastReplyTime < s.currentCooldown

\* a cooldown drawn above cooldownMax
StartCooldownFromMax(s, t, random) ==
    [s EXCEPT !.lastReplyTime = t,
              !.currentCooldown =
                  s.config.cooldownMax
                  + (random * (s.config.cooldownMax - s.config.cooldownMin)) \div RandomScale]

\* startCooldown at time t, Math.random() returning random
StartCooldown(s, t, random) ==
    [s EXCEPT !.lastReplyTime = t,
              !.currentCooldown =
                  s.config.cooldownMin
                  + (random * (s.config.cooldownMax - s.config.cooldownMin)) \div RandomScale]

\* shouldReply at time t, Math.random() returning random
ShouldReplyCooldownFirst(s, msg, t, random) ==
    IF msg.sender = s.config.agentName THEN FALSE
    ELSE IF IsInCooldown(s, t) THEN FALSE
    ELSE IF s.config.mentionAlwaysReply /\ IsMentioned(s, msg) THEN TRUE
    ELSE random < s.config.replyProbability

ShouldReply(s, msg, t, random) ==
    IF msg.sender = s.config.agentName THEN FALSE
    ELSE IF s.config.mentionAlwaysReply /\ IsMentioned(s, msg) THEN TRUE
    ELSE IF IsInCooldown(s, t) THEN FALSE
    ELSE random < s.config.replyProbability

\* getCooldownRemaining at time t
GetCooldownRemaining(s, t) ==
    LET remaining == s.currentCooldown - (t - s.lastReplyTime) IN
    IF remaining > 0 THEN remaining ELSE 0

\* The messages shouldReply is asked about: the agent's own or Alice's,
\* mentioning nobody, the agent, or the agent in lower case.
RSMessages ==
    {ChatMessage("msg1", sender, IF sender = Self THEN "agent" ELSE "human", mentions, "none") :
        sender \in {Self, "Alice"}, mentions \in {{}, {Self}, {"testbot"}, {"Alice"}}}

InitRS ==
    /\ InitOthers
    /\ InitClient
    /\ selfName = Self
    /\ \E replyProbability \in {0, DefaultReplyProbability, RandomScale} :
       \E mentionAlwaysReply \in BOOLEAN :
           strategy = NewReplyStrategy(StrategyConfig(replyProbability, mentionAlwaysReply))
    /\ backoffMultiplier = 1
    /\ rejections = 0
    /\ args = NoArgs
    /\ locals = NoArgs
    /\ ret = NoArgs

StepsRS == {5000, 10000}

TickRS ==
    /\ ticks < MaxStrategyTicks
    /\ \E d \in StepsRS : now' = now + d
    /\ ticks' = ticks + 1
    /\ args' = NoArgs
    /\ locals' = NoArgs
    /\ ret' = NoArgs
    /\ UNCHANGED <<limiterVars, storeVars, turnVars, engineVars, connectorState>>

CallStartCooldown ==
    /\ \E random \in Randoms :
           /\ strategy' = StartCooldown(strategy, now, random)
           /\ args' = [fn |-> "startCooldown", random |-> random]
    /\ ret' = [fn |-> "startCooldown"]
    /\ UNCHANGED <<selfName, backoffMultiplier, rejections, locals>>
    /\ OthersUnchanged

CallShouldReply ==
    /\ \E msg \in RSMessages : \E random \in Randoms :
           /\ args' = [fn |-> "shouldReply", msg |-> msg, random |-> random]
           /\ ret' = [fn |-> "shouldReply", value |-> ShouldReply(strategy, msg, now, random)]
    /\ UNCHANGED <<connectorState, locals>>
    /\ OthersUnchanged

NextRS == TickRS \/ CallStartCooldown \/ CallShouldReply

SpecRS == InitRS /\ [][NextRS]_vars

(************************ backoff after rejections *************************)

\* recordRateLimit: the multiplier doubles, up to the ceiling
RecordRateLimit(multiplier) == Min(multiplier * 2, MaxBackoffMultiplier)

\* resetBackoff
ResetBackoff(multiplier) == 1

\* The HTTP outcomes of a POST /messages: created, rate limited, forbidden, no
\* response at all (0).
SendStatuses == {201, 429, 403, 0}

\* error.message of axios for a failed request
ErrorMessage(status) ==
    IF status = 0 THEN "Network Error"
    ELSE IF status = 429 THEN "Request failed with status code 429"
    ELSE "Request failed with status code 403"

\* error.includes('429')
Includes429(error) == error = "Request failed with status code 429"

\* ChatClient.sendMessage: one request and, after a 429, one retry
SendMessage(first, retry) ==
    IF first = 201 THEN [success |-> TRUE, error |-> ""]
    ELSE IF first = 429
    THEN IF retry = 201 THEN [success |-> TRUE, error |-> ""]
         ELSE [success |-> FALSE, error |-> ErrorMessage(retry)]
    ELSE [success |-> FALSE, error |-> ErrorMessage(first)]

\* The message handler of the connector after chatClient.sendMessage has resolved.
HandleSendResultNoReset(sendResult, random) ==
    /\ strategy' = IF sendResult.success THEN StartCooldown(strategy, now, random) ELSE strategy
    /\ backoffMultiplier' = IF ~sendResult.success /\ Includes429(sendResult.error)
                            THEN RecordRateLimit(backoffMultiplier) ELSE backoffMultiplier
    /\ rejections' = IF sendResult.success THEN 0
                     ELSE IF Includes429(sendResult.error) THEN rejections + 1
                     ELSE rejections

HandleSendResult(sendResult, random) ==
    /\ strategy' = IF sendResult.success THEN StartCooldown(strategy, now, random) ELSE strategy
    /\ backoffMultiplier' = IF sendResult.success THEN ResetBackoff(backoffMultiplier)
                            ELSE IF Includes429(sendResult.error)
                            THEN RecordRateLimit(backoffMultiplier)
                            ELSE backoffMultiplier
    /\ rejections' = IF sendResult.success THEN 0
                     ELSE IF Includes429(sendResult.error) THEN rejections + 1
                     ELSE rejections

InitBackoff ==
    /\ InitOthers
    /\ InitConnector

\* strategy.recordRateLimit()
CallRecordRateLimit ==
    /\ rejections < MaxRejections
    /\ backoffMultiplier' = RecordRateLimit(backoffMultiplier)
    /\ rejections' = rejections + 1
    /\ args' = [fn |-> "recordRateLimit"]
    /\ ret' = [fn |-> "recordRateLimit"]
    /\ UNCHANGED <<selfName, strategy, locals>>
    /\ OthersUnchanged

\* strategy.resetBackoff()
CallResetBackoff ==
    /\ backoffMultiplier' = ResetBackoff(backoffMultiplier)
    /\ rejections' = 0
    /\ args' = [fn |-> "resetBackoff"]
    /\ ret' = [fn |-> "resetBackoff"]
    /\ UNCHANGED <<selfName, strategy, locals>>
    /\ OthersUnchanged

\* The connector sends a reply and handles the result.
SendReply ==
    /\ rejections < MaxRejections
    /\ \E first \in SendStatuses : \E retry \in SendStatuses : \E random \in Randoms :
           /\ args' = [fn |-> "sendMessage", first |-> first, retry |-> retry]
           /\ ret' = [fn |-> "sendMessage", value |-> SendMessage(first, retry)]
           /\ HandleSendResult(SendMessage(first, retry), random)
    /\ UNCHANGED <<selfName, locals>>
    /\ OthersUnchanged

NextBackoff == CallRecordRateLimit \/ CallResetBackoff \/ SendReply

SpecBackoff == InitBackoff /\ [][NextBackoff]_vars

(************************ cooldowns under backoff **************************)

\* startCooldown of the strategy that keeps a backoff multiplier: the duration
\* drawn is scaled by the multiplier.
StartCooldownWithBackoff(s, t, random, multiplier) ==
    [StartCooldown(s, t, random) EXCEPT !.currentCooldown = @ * multiplier]

StepsCooldown == {4900, 5000}

TickCooldown ==
    /\ ticks < MaxCooldownTicks
    /\ \E d \in StepsCooldown : now' = now + d
    /\ ticks' = ticks + 1
    /\ UNCHANGED <<limiterVars, storeVars, turnVars, engineVars, connectorVars>>

\* strategy.startCooldown(); the call is noted with its time and the multiplier.
CallStartCooldownWithBackoff ==
    /\ \E random \in Randoms :
           /\ strategy' = StartCooldownWithBackoff(strategy, now, random, backoffMultiplier)
           /\ args' = [fn |-> "startCooldown", random |-> random]
    /\ locals' = [fn |-> "startCooldown", at |-> now, multiplier |-> backoffMultiplier]
    /\ ret' = [fn |-> "startCooldown"]
    /\ UNCHANGED <<selfName, backoffMultiplier, rejections>>
    /\ OthersUnchanged

NextCooldown ==
    TickCooldown \/ CallStartCooldownWithBackoff \/ CallRecordRateLimit \/ CallResetBackoff

SpecCooldown == InitBackoff /\ [][NextCooldown]_vars

(************************** context compression ****************************)

\* A message with its content, kept as what estimateTokens and
\* calculateImportance read of it: the numbers of CJK and other characters and
\* whether it contains a question mark.
HistoryMessage(id, content, mentions, replyTo, timestamp) ==
    [id |-> id, content |-> content, mentions |-> mentions, replyTo |-> replyTo,
     timestamp |-> timestamp]

\* estimateTokens: Math.ceil(cjkChars / 2 + nonCjkChars / 4)
EstimateTokens(content) == (2 * content.cjkChars + content.nonCjkChars + 3) \div 4

Tokens(msg) == EstimateTokens(msg.content)

\* messages.find(m => m.id === id): the index of the first match, 0 if none
FindIndex(msgs, id) ==
    IF \E i \in DOMAIN msgs : msgs[i].id = id
    THEN CHOOSE i \in DOMAIN msgs :
             /\ msgs[i].id = id
             /\ \A j \in 1..(i - 1) : msgs[j].id # id
    ELSE 0

\* The local variables of traceReplyChain when its loop is entered.
TraceEntry(targetId) ==
    [currentId |-> targetId, depth |-> 0, visited |-> {}, chain |-> <<>>, looping |-> TRUE]

\* One pass through the while loop of traceReplyChain (its test included); chain
\* holds indices into messages, newest first.
TraceIterationNoCycleCheck(msgs, maxDepth, st) ==
    IF st.currentId = "none" \/ st.depth >= maxDepth THEN [st EXCEPT !.looping = FALSE]
    ELSE LET i == FindIndex(msgs, st.currentId) IN
         IF i = 0 THEN [st EXCEPT !.looping = FALSE]
         ELSE [currentId |-> msgs[i].replyTo, depth |-> st.depth + 1,
               visited |-> st.visited, chain |-> Append(st.chain, i), looping |-> TRUE]

TraceIteration(msgs, maxDepth, st) ==
    IF st.currentId = "none" \/ st.depth >= maxDepth THEN [st EXCEPT !.looping = FALSE]
    ELSE IF st.currentId \in st.visited THEN [st EXCEPT !.looping = FALSE]
    ELSE LET i == FindIndex(msgs, st.currentId) IN
         IF i = 0
         THEN [st EXCEPT !.looping = FALSE, !.visited = @ \cup {st.currentId}]
         ELSE [currentId |-> msgs[i].replyTo, depth |-> st.depth + 1,
               visited |-> st.visited \cup {st.currentId},
               chain |-> Append(st.chain, i), looping |-> TRUE]

\* The while loop of traceReplyChain, run to its end.
RECURSIVE TraceLoop(_, _, _)
TraceLoop(msgs, maxDepth, st) ==
    IF st.looping THEN TraceLoop(msgs, maxDepth, TraceIteration(msgs, maxDepth, st))
    ELSE st.chain

Reverse(seq) == [i \in 1..Len(seq) |-> seq[Len(seq) + 1 - i]]

\* traceReplyChain, as indices into messages, oldest first
TraceReplyChainIndices(targetId, msgs, maxDepth) ==
    Reverse(TraceLoop(msgs, maxDepth, TraceEntry(targetId)))

\* traceReplyChain
TraceReplyChain(targetId, msgs, maxDepth) ==
    LET chain == TraceReplyChainIndices(targetId, msgs, maxDepth) IN
    [k \in 1..Len(chain) |-> msgs[chain[k]]]

\* calculateImportance, in tenths
CalculateImportance(msg, name) ==
    Min(10, 3 + (IF name \in msg.mentions THEN 3 ELSE 0)
              + (IF msg.content.question THEN 2 ELSE 0)
              + (IF msg.replyTo # "none" THEN 1 ELSE 0))

\* Array.prototype.sort((a, b) => a.timestamp - b.timestamp): stable
RECURSIVE SortByTimestamp(_)
SortByTimestampReversed(seq) ==
    IF seq = <<>> THEN <<>>
    ELSE LET rest == SortByTimestamp(SubSeq(seq, 1, Len(seq) - 1))
             x == seq[Len(seq)]
             p == Cardinality({i \in DOMAIN rest : rest[i].timestamp >= x.timestamp})
         IN SubSeq(rest, 1, p) \o <<x>> \o SubSeq(rest, p + 1, Len(rest))

SortByTimestamp(seq) ==
    IF seq = <<>> THEN <<>>
    ELSE LET rest == SortByTimestamp(SubSeq(seq, 1, Len(seq) - 1))
             x == seq[Len(seq)]
             p == Cardinality({i \in DOMAIN rest : rest[i].timestamp <= x.timestamp})
         IN SubSeq(rest, 1, p) \o <<x>> \o SubSeq(rest, p + 1, Len(rest))

\* Array.prototype.sort((a, b) => b.score - a.score) on indices into messages: stable
RECURSIVE SortByScore(_, _, _)
SortByScore(msgs, name, idxs) ==
    IF idxs = <<>> THEN <<>>
    ELSE LET rest == SortByScore(msgs, name, SubSeq(idxs, 1, Len(idxs) - 1))
             x == idxs[Len(idxs)]
             p == Cardinality({i \in DOMAIN rest :
                     CalculateImportance(msgs[rest[i]], name)
                         >= CalculateImportance(msgs[x], name)})
         IN SubSeq(rest, 1, p) \o <<x>> \o SubSeq(rest, p + 1, Len(rest))

\* compressRecent: the loop from the end of messages, at index i
RECURSIVE RecentLoop(_, _, _, _, _, _)
RecentLoop(msgs, trigger, maxTokens, i, selected, tokenCount) ==
    IF i = 0 THEN selected
    ELSE IF msgs[i].id = trigger.id
    THEN RecentLoop(msgs, trigger, maxTokens, i - 1, selected, tokenCount)
    ELSE IF tokenCount + Tokens(msgs[i]) > maxTokens THEN selected
    ELSE RecentLoop(msgs, trigger, maxTokens, i - 1, <<msgs[i]>> \o selected,
                    tokenCount + Tokens(msgs[i]))

\* compressRecent
CompressRecent(msgs, trigger, maxTokens) ==
    LET fits == Tokens(trigger) <= maxTokens IN
    SortByTimestamp(RecentLoop(msgs, trigger, maxTokens, Len(msgs),
                               IF fits THEN <<trigger>> ELSE <<>>,
                               IF fits THEN Tokens(trigger) ELSE 0))

\* A greedy pass over the indices idxs (from position k on): an index is added to
\* the set selected (kept in insertion order) when its message fits; skipId is the
\* id the pass skips ("none": it skips nothing).
RECURSIVE GreedyPass(_, _, _, _, _, _)
GreedyPass(msgs, idxs, k, maxTokens, skipId, acc) ==
    IF k > Len(idxs) THEN acc
    ELSE LET i == idxs[k]
             tokens == Tokens(msgs[i])
         IN IF msgs[i].id = skipId \/ acc.tokenCount + tokens > maxTokens
            THEN GreedyPass(msgs, idxs, k + 1, maxTokens, skipId, acc)
            ELSE GreedyPass(msgs, idxs, k + 1, maxTokens, skipId,
                     [selected |-> IF \E j \in DOMAIN acc.selected : acc.selected[j] = i
                                   THEN acc.selected ELSE Append(acc.selected, i),
                      tokenCount |-> acc.tokenCount + tokens])

NothingSelected == [selected |-> <<>>, tokenCount |-> 0]

Indices(msgs) == [i \in 1..Len(msgs) |-> i]

MessagesAt(msgs, idxs) == [k \in 1..Len(idxs) |-> msgs[idxs[k]]]

\* compressImportant (its selected array may hold a message twice only if
\* messages does: the pass goes over each index once)
CompressImportant(msgs, trigger, maxTokens, name) ==
    LET scored == SortByScore(msgs, name, Indices(msgs))
        acc == GreedyPass(msgs, scored, 1, maxTokens, trigger.id, NothingSelected)
        selected == MessagesAt(msgs, acc.selected)
    IN SortByTimestamp(IF acc.tokenCount + Tokens(trigger) <= maxTokens
                       THEN Append(selected, trigger) ELSE selected)

\* compressHybrid at time t: the three passes
HybridChainPass(msgs, trigger, maxTokens) ==
    GreedyPass(msgs, TraceReplyChainIndices(trigger.id, msgs, DefaultMaxDepth), 1,
               maxTokens, "none", NothingSelected)

HybridMentionPass(msgs, trigger, maxTokens, name, t) ==
    LET p1 == HybridChainPass(msgs, trigger, maxTokens)
        mentions == SelectSeq(Indices(msgs), LAMBDA i :
                        /\ msgs[i].timestamp >= t - FiveMinutes
                        /\ name \in msgs[i].mentions
                        /\ ~\E j \in DOMAIN p1.selected : p1.selected[j] = i)
    IN GreedyPass(msgs, mentions, 1, maxTokens, "none", p1)

CompressHybrid(msgs, trigger, maxTokens, name, t) ==
    LET p2 == HybridMentionPass(msgs, trigger, maxTokens, name, t)
        remaining == SortByScore(msgs, name,
                         SelectSeq(Indices(msgs), LAMBDA i :
                             ~\E j \in DOMAIN p2.selected : p2.selected[j] = i))
        p3 == GreedyPass(msgs, remaining, 1, maxTokens, "none", p2)
    IN SortByTimestamp(MessagesAt(msgs, p3.selected))

\* compressContext at time t; an option of 0 or "" is taken as not given
CompressContext(msgs, trigger, options, t) ==
    LET strat == IF options.strategy = "" THEN "hybrid" ELSE options.strategy
        maxTokens == IF options.maxTokens = 0 THEN DefaultMaxTokens ELSE options.maxTokens
    IN IF strat = "recent" THEN CompressRecent(msgs, trigger, maxTokens)
       ELSE IF strat = "important"
       THEN CompressImportant(msgs, trigger, maxTokens, options.agentName)
       ELSE CompressHybrid(msgs, trigger, maxTokens, options.agentName, t)

\* Contents: a short statement (4 characters, 1 token) and a longer question
\* (3 CJK and 5 other characters, 3 tokens).
ShortContent == [cjkChars |-> 0, nonCjkChars |-> 4, question |-> FALSE]
LongContent == [cjkChars |-> 3, nonCjkChars |-> 5, question |-> TRUE]
CCContents == {ShortContent, LongContent}

\* The id of the i-th message of a history.
CCId(i) == <<"m1", "m2", "m3", "m4", "m5">>[i]

\* What a history message is otherwise: older than five minutes, or recent and
\* mentioning the agent or not; a reply to one of the first two messages or to none.
CCKinds ==
    {[timestamp |-> CompressionTime - 400000, mentions |-> {}],
     [timestamp |-> CompressionTime - 1000, mentions |-> {}],
     [timestamp |-> CompressionTime - 2000, mentions |-> {Self}]}

CCReplyTos == {"none", "m1", "m2"}

\* The history that h describes: h[i] is the content, kind and replyTo of message i.
CCHistory(h) ==
    [i \in DOMAIN h |->
        HistoryMessage(CCId(i), h[i][1], h[i][2].mentions, h[i][3], h[i][2].timestamp)]

\* The trigger is a message of the history, or a message that is not in it.
CCTriggers(history) ==
    {history[i] : i \in DOMAIN history} \cup
    {HistoryMessage("t", ShortContent, {}, replyTo, CompressionTime) : replyTo \in {"none", "m1"}}

CCOptions ==
    {[strategy |-> strat, maxTokens |-> maxTokens, agentName |-> Self] :
        strat \in {"recent", "important", "hybrid"}, maxTokens \in {0, 2, 3, 4}}

InitCC ==
    /\ now = CompressionTime
    /\ InitOthersButNow
    /\ InitConnectorState
    /\ \E n \in 0..MaxHistory : \E h \in [1..n -> CCContents \X CCKinds \X CCReplyTos] :
       \E trigger \in CCTriggers(CCHistory(h)) : \E options \in CCOptions :
           args = [fn |-> "compressContext", messages |-> CCHistory(h),
                   trigger |-> trigger, options |-> options]
    /\ locals = NoArgs
    /\ ret = NoArgs

\* compressContext(history, msg, options)
CallCompressContext ==
    /\ args.fn = "compressContext"
    /\ ret = NoArgs
    /\ ret' = [fn |-> "compressContext",
               value |-> CompressContext(args.messages, args.trigger, args.options, now)]
    /\ UNCHANGED <<connectorState, args, locals>>
    /\ OthersUnchanged

NextCC == CallCompressContext

SpecCC == InitCC /\ [][NextCC]_vars

(************************ traceReplyChain on its own ************************)

TraceIds == {"msg1", "msg2", "msg3"}

\* traceReplyChain(targetId, messages, maxDepth): any messages with ids and
\* replyTo among three ids (cycles, repeated ids and missing parents included),
\* maxDepth the default or 1.
InitTrace ==
    /\ InitOthers
    /\ InitConnectorState
    /\ \E n \in 0..MaxHistory : \E h \in [1..n -> TraceIds \X (TraceIds \cup {"none"})] :
       \E targetId \in TraceIds : \E maxDepth \in {1, DefaultMaxDepth} :
           /\ args = [fn |-> "traceReplyChain", targetId |-> targetId,
                      messages |-> [i \in 1..n |->
                                       HistoryMessage(h[i][1], ShortContent, {}, h[i][2], i)],
                      maxDepth |-> maxDepth]
           /\ locals = TraceEntry(targetId) @@ [steps |-> 0]
    /\ ret = NoArgs

\* One pass through the loop.
TraceIterate ==
    /\ args.fn = "traceReplyChain"
    /\ locals.looping
    /\ LET st == [f \in DOMAIN locals \ {"steps"} |-> locals[f]]
           next == TraceIteration(args.messages, args.maxDepth, st)
           entered == ~(st.currentId = "none" \/ st.depth >= args.maxDepth)
       IN locals' = next @@ [steps |-> locals.steps + (IF entered THEN 1 ELSE 0)]
    /\ UNCHANGED <<connectorState, args, ret>>
    /\ OthersUnchanged

\* return chain.reverse()
TraceReturn ==
    /\ args.fn = "traceReplyChain"
    /\ ~locals.looping
    /\ ret = NoArgs
    /\ ret' = [fn |-> "traceReplyChain",
               value |-> MessagesAt(args.messages, Reverse(locals.chain))]
    /\ UNCHANGED <<connectorState, args, locals>>
    /\ OthersUnchanged

NextTrace == TraceIterate \/ TraceReturn

\* The loop is run by a single thread that does not stop by itself.
SpecTrace == InitTrace /\ [][NextTrace]_vars /\ WF_vars(NextTrace)

(********************** the engine's engagement backoff *********************)

\* The base cooldown: the test's, the default, and one above the 30 minute ceiling.
EngageCooldowns == {60000, DefaultCooldown, 3600000}

InitEngage ==
    /\ now = EngineStart
    /\ InitServerSide
    /\ \E cooldown \in EngageCooldowns : InitEngine([enabled |-> TRUE, cooldown |-> cooldown])
    /\ InitConnector

TickEngage ==
    /\ ticks < MaxEngageTicks
    /\ InFlight < MaxInFlight
    /\ IntervalElapses
    /\ UNCHANGED <<limiterVars, storeVars, turnVars, connectorVars>>

\* The recent messages handed to checkEngagement: up to two, each by the agent or
\* by Alice, at the time of the last proactive message or a second later.
EngageMessages ==
    {[sender |-> sender, timestamp |-> lastProactiveTime + d] :
        sender \in {Self, "Alice"}, d \in {0, 1000}}

Engagement ==
    /\ consecutiveNoReply < MaxNoReply
    /\ \E n \in 0..2 : \E recentMessages \in [1..n -> EngageMessages] :
           /\ CheckEngagement(recentMessages)
           /\ args' = [fn |-> "checkEngagement", recentMessages |-> recentMessages]
    /\ ret' = [fn |-> "checkEngagement"]
    /\ UNCHANGED <<connectorState, locals>>
    /\ UNCHANGED <<now, ticks, limiterVars, storeVars, turnVars>>

NextEngage ==
    TickEngage \/ StartEngine \/ StopEngine \/ Activity \/ Turn \/ Topic \/ Speak \/ Engagement

SpecEngage == InitEngage /\ [][NextEngage]_vars

(******************** the engine's ticks, one by one ************************)

\* An invocation of checkAndSpeak that passed the daily limit and the cooldown at
\* tick id: the await it is at, what the two tests saw, and what each awaited
\* call has answered so far ("none": not asked).
Invocation(id, capReached, inCooldown) ==
    [fn |-> "checkAndSpeak", id |-> id, pc |-> "activity",
     capReached |-> capReached, inCooldown |-> inCooldown,
     isIdle |-> "none", granted |-> "none", topic |-> "none", spoke |-> "none"]

\* what an awaited call answered
Answer(yes, throws) == IF throws THEN "threw" ELSE IF yes THEN "yes" ELSE "no"

\* the await an invocation has gone on to in this step, "done" when it returned
Destination ==
    IF \E a \in Awaits : inflight'[a] > inflight[a]
    THEN CHOOSE a \in Awaits : inflight'[a] > inflight[a]
    ELSE "done"

\* The invocation inv has seen an answer (seen: inv with that answer) and goes on
\* or returns.
Proceed(inv, seen) ==
    /\ locals' = (locals \ {inv}) \cup
                     (IF Destination = "done" THEN {} ELSE {[seen EXCEPT !.pc = Destination]})
    /\ ret' = IF Destination = "done" THEN [seen EXCEPT !.pc = "done"] ELSE ret

\* The engine is new, or it has spoken before: 19 or 20 times on the day of its
\* last reset, the last time a default cooldown ago.
InitLife ==
    /\ now \in {EngineStart - 2 * checkInterval, EngineStart}
    /\ InitServerSide
    /\ \E enabled \in BOOLEAN : \E cooldown \in Cooldowns :
           \/ InitEngine([enabled |-> enabled, cooldown |-> cooldown])
           \/ /\ config = [enabled |-> enabled, cooldown |-> cooldown]
              /\ enabled
              /\ timer = FALSE
              /\ intervals = 0
              /\ dailyCount \in {maxDailyPerAgent - 1, maxDailyPerAgent}
              /\ lastProactiveTime = now - DefaultCooldown
              /\ consecutiveNoReply = 0
              /\ lastDailyReset = Today(now)
              /\ inflight = [a \in Awaits |-> 0]
    /\ InitConnectorState
    /\ args = NoArgs
    /\ locals = {}
    /\ ret = NoArgs

LifeUnchanged == UNCHANGED <<limiterVars, storeVars, turnVars, connectorState>>

\* checkInterval elapses. What the daily limit (after the daily reset) and the
\* cooldown test see at that time is noted with the invocation.
LifeTick ==
    /\ ticks < MaxLifeTicks
    /\ InFlight < MaxInFlight
    /\ IntervalElapses
    /\ LET capReached == Answer(lastDailyReset = Today(now') /\ dailyCount >= maxDailyPerAgent,
                                FALSE)
           inCooldown == IF capReached = "yes" THEN "none"
                         ELSE Answer(now' - lastProactiveTime < GetCurrentCooldown, FALSE)
           inv == Invocation(ticks', capReached, inCooldown)
       IN /\ locals' = IF Destination = "activity" THEN locals \cup {inv} ELSE locals
          /\ ret' = IF intervals > 0 /\ Destination = "done"
                    THEN [inv EXCEPT !.pc = "done"]
                    ELSE ret
    /\ UNCHANGED args
    /\ LifeUnchanged

LifeStart ==
    /\ Start
    /\ args' = [fn |-> "start", had |-> timer]
    /\ UNCHANGED <<now, ticks, locals, ret>>
    /\ LifeUnchanged

LifeStop ==
    /\ Stop
    /\ args' = [fn |-> "stop", had |-> timer]
    /\ UNCHANGED <<now, ticks, locals, ret>>
    /\ LifeUnchanged

LifeActivity ==
    \E inv \in locals : \E isIdle \in BOOLEAN : \E throws \in BOOLEAN :
        /\ inv.pc = "activity"
        /\ ActivityReply(isIdle, throws)
        /\ Proceed(inv, [inv EXCEPT !.isIdle = Answer(isIdle, throws)])
        /\ UNCHANGED <<now, ticks, args>>
        /\ LifeUnchanged

LifeTurn ==
    \E inv \in locals : \E granted \in BOOLEAN : \E throws \in BOOLEAN :
        /\ inv.pc = "turn"
        /\ TurnReply(granted, throws)
        /\ Proceed(inv, [inv EXCEPT !.granted = Answer(granted, throws)])
        /\ UNCHANGED <<now, ticks, args>>
        /\ LifeUnchanged

LifeTopic ==
    \E inv \in locals : \E skip \in BOOLEAN : \E throws \in BOOLEAN :
        /\ inv.pc = "topic"
        /\ TopicReply(skip, throws)
        /\ Proceed(inv, [inv EXCEPT !.topic = Answer(~skip, throws)])
        /\ UNCHANGED <<now, ticks, args>>
        /\ LifeUnchanged

LifeSpeak ==
    \E inv \in locals : \E throws \in BOOLEAN :
        /\ inv.pc = "speak"
        /\ SpeakDone(throws)
        /\ Proceed(inv, [inv EXCEPT !.spoke = Answer(TRUE, throws)])
        /\ UNCHANGED <<now, ticks, args>>
        /\ LifeUnchanged

NextLife ==
    LifeTick \/ LifeStart \/ LifeStop \/ LifeActivity \/ LifeTurn \/ LifeTopic \/ LifeSpeak

SpecLife == InitLife /\ [][NextLife]_vars

(******************** the connector's ChatClient ***************************)
\* A message reaches the client as its id and its timestamp. The store's ids are
\* unique strings; here a message's id is its position in Store.messages, and 0
\* stands for a message without an id.
MathMax(a, b) == IF a > b THEN a ELSE b

\* a cleanup that deletes every entry, whatever its age
CleanupProcessedMessagesWhateverAge(processed, t) == <<>>

\* cleanupProcessedMessages() at time t
CleanupProcessedMessages(processed, t) ==
    LET kept == {id \in DOMAIN processed : ~(t - processed[id] > MESSAGE_DEDUP_TTL)}
    IN [id \in kept |-> processed[id]]

\* isMessageProcessed(messageId)
IsMessageProcessed(processed, messageId) ==
    IF messageId = 0 THEN FALSE ELSE messageId \in DOMAIN processed

\* markMessageProcessed(messageId) at time t
MarkMessageProcessed(processed, messageId, t) ==
    IF messageId = 0 THEN processed
    ELSE LET set == [id \in DOMAIN processed \cup {messageId} |->
                        IF id = messageId THEN t ELSE processed[id]]
         IN IF Cardinality(DOMAIN set) >= CleanupSize
            THEN CleanupProcessedMessages(set, t)
            ELSE set

\* What a message changes: the map, lastMessageTimestamp, and the handler's calls.
ClientState ==
    [processed |-> processedMessages, last |-> lastMessageTimestamp, handled |-> handled]

\* The body of the 'message' listener, and of the loop of _catchUpMessages, for
\* one message at time t.
Deliver(c, msg, t) ==
    IF IsMessageProcessed(c.processed, msg.id) THEN c
    ELSE [processed |-> MarkMessageProcessed(c.processed, msg.id, t),
          last |-> MathMax(c.last, msg.timestamp),
          handled |-> Append(c.handled, [id |-> msg.id, at |-> t])]

RECURSIVE DeliverAll(_, _, _)
DeliverAll(c, msgs, t) ==
    IF msgs = <<>> THEN c ELSE DeliverAll(Deliver(c, Head(msgs), t), Tail(msgs), t)

Delivered(c) ==
    /\ processedMessages' = c.processed
    /\ lastMessageTimestamp' = c.last
    /\ handled' = c.handled

connectionVars == <<eventSource, reconnectAttempts, reconnectTimer, shouldReconnect,
                    timeouts, stream, catchUps, scheduled, missed>>

(******************** the client's deduplication ***************************)
\* The client has processed Processed messages at time 0, two short of the size
\* at which markMessageProcessed cleans up. Messages then arrive in any order,
\* on the stream or as the answer of a catch-up request: the first of the old
\* ones, and up to MaxDedupIds new ones. Of the handler's calls at time 0, the
\* history holds that for the message that arrives again.
Processed == CleanupSize - 2

DedupIds == {1} \cup (Processed + 1)..(Processed + MaxDedupIds)

DedupSteps == {1, MESSAGE_DEDUP_TTL}

DedupBatches == {<<i, j>> : i \in DedupIds, j \in DedupIds}

InitDedup ==
    /\ now = 0
    /\ InitServerSide
    /\ InitEngine([enabled |-> FALSE, cooldown |-> DefaultCooldown])
    /\ InitReplyState
    /\ eventSource = "open"
    /\ reconnectAttempts = 0
    /\ reconnectTimer = 0
    /\ shouldReconnect = TRUE
    /\ lastMessageTimestamp = 0
    /\ processedMessages = [id \in 1..Processed |-> 0]
    /\ timeouts = {}
    /\ stream = <<>>
    /\ catchUps = <<>>
    /\ handled = <<[id |-> 1, at |-> 0]>>
    /\ scheduled = <<>>
    /\ missed = {}
    /\ args = NoArgs
    /\ locals = <<>>
    /\ ret = NoArgs

DedupUnchanged ==
    UNCHANGED <<limiterVars, storeVars, turnVars, engineVars, selfName, strategy,
                backoffMultiplier, rejections, connectionVars, locals, ret>>

TickDedup ==
    \E d \in DedupSteps :
        /\ ticks < MaxDedupTicks
        /\ now' = now + d
        /\ ticks' = ticks + 1
        /\ UNCHANGED <<processedMessages, lastMessageTimestamp, handled, args>>
        /\ DedupUnchanged

\* a 'message' event: the listener of _connect
OnMessage(msg) ==
    /\ eventSource = "open"
    /\ Delivered(Deliver(ClientState, msg, now))

\* the answer of the getMessages request of _catchUpMessages: the loop over it
CatchUpLoop(missedMessages) ==
    Delivered(DeliverAll(ClientState, missedMessages, now))

StreamDedup ==
    \E id \in DedupIds :
        /\ Len(handled) <= MaxHandled
        /\ OnMessage([id |-> id, timestamp |-> now])
        /\ args' = [fn |-> "onMessage", ids |-> {id}]
        /\ UNCHANGED <<now, ticks>>
        /\ DedupUnchanged

CatchUpDedup ==
    \E batch \in DedupBatches :
        /\ Len(handled) <= MaxHandled
        /\ CatchUpLoop([k \in 1..2 |-> [id |-> batch[k], timestamp |-> now]])
        /\ args' = [fn |-> "_catchUpMessages", ids |-> {batch[1], batch[2]}]
        /\ UNCHANGED <<now, ticks>>
        /\ DedupUnchanged

NextDedup == TickDedup \/ StreamDedup \/ CatchUpDedup

SpecDedup == InitDedup /\ [][NextDedup]_vars

(******************** the client's stream and its reconnects ***************)
\* Store.getMessages(since, limit), as the ids (positions) of the messages returned
RECURSIVE IdsSince(_, _, _)
IdsSince(msgs, since, k) ==
    IF k > Len(msgs) THEN <<>>
    ELSE IF msgs[k].timestamp > since THEN <<k>> \o IdsSince(msgs, since, k + 1)
    ELSE IdsSince(msgs, since, k + 1)

StoreGetMessages(msgs, since, limit) ==
    LET filtered == IdsSince(msgs, since, 1)
    IN IF Len(filtered) <= limit THEN filtered
       ELSE SubSeq(filtered, Len(filtered) - limit + 1, Len(filtered))

\* a stored message as the client receives it
Received(msgs, id) == [id |-> id, timestamp |-> msgs[id].timestamp]

\* a reconnect delay that is not capped
ReconnectDelayUncapped(attempts) == 1000 * Pow2(attempts)

\* the delay of _scheduleReconnect
ReconnectDelay(attempts) == Min(1000 * Pow2(attempts), maxReconnectDelay)

\* clearTimeout(handle)
ClearTimeout(pending, handle) == {t \in pending : t.id # handle}

\* The stream has been open before (the history notes each 'open' as a 0).
HasBeenOpen == \E k \in 1..Len(scheduled) : scheduled[k] = 0

InitStream ==
    /\ now = ServerStart
    /\ InitServerSide
    /\ InitEngine([enabled |-> FALSE, cooldown |-> DefaultCooldown])
    /\ InitConnector

StreamUnchanged ==
    UNCHANGED <<limiterVars, members, response, turnVars, engineVars, selfName, strategy,
                backoffMultiplier, rejections, locals, ret>>

TickStream ==
    /\ ticks < MaxStreamTicks
    /\ now' = now + 1000
    /\ ticks' = ticks + 1
    /\ UNCHANGED <<messages, lastMessageTime, clientVars, args>>
    /\ StreamUnchanged

\* connectSSE(onMessage), called once
ConnectSSE ==
    /\ eventSource = "none"
    /\ shouldReconnect' = TRUE
    /\ eventSource' = "connecting"
    /\ UNCHANGED <<args, now, ticks, messages, lastMessageTime, reconnectAttempts, reconnectTimer,
                   lastMessageTimestamp, processedMessages, timeouts, stream, catchUps,
                   handled, scheduled, missed>>
    /\ StreamUnchanged

\* The 'open' listener. The server has added the client; _catchUpMessages runs up
\* to its await, with since read from lastMessageTimestamp.
OnOpen ==
    /\ eventSource = "connecting"
    /\ eventSource' = "open"
    /\ reconnectAttempts' = 0
    /\ catchUps' = IF reconnectAttempts > 0 /\ lastMessageTimestamp > 0
                   THEN Append(catchUps, lastMessageTimestamp)
                   ELSE catchUps
    /\ scheduled' = Append(scheduled, 0)
    /\ UNCHANGED <<args, now, ticks, messages, lastMessageTime, reconnectTimer, shouldReconnect,
                   lastMessageTimestamp, processedMessages, timeouts, stream, handled, missed>>
    /\ StreamUnchanged

\* _scheduleReconnect()
ScheduleReconnect ==
    LET delay == ReconnectDelay(reconnectAttempts)
        handle == Len(scheduled) + 1
    IN /\ timeouts' = (IF reconnectTimer # 0 THEN ClearTimeout(timeouts, reconnectTimer)
                       ELSE timeouts) \cup {[id |-> handle, at |-> now + delay]}
       /\ reconnectAttempts' = reconnectAttempts + 1
       /\ reconnectTimer' = handle
       /\ scheduled' = Append(scheduled, delay)

\* onerror: the connection failed or was lost, and what was written to it is lost.
OnError ==
    /\ eventSource \in {"connecting", "open"}
    /\ eventSource' = "closed"
    /\ stream' = <<>>
    /\ IF shouldReconnect THEN ScheduleReconnect
       ELSE UNCHANGED <<timeouts, reconnectAttempts, reconnectTimer, scheduled>>
    /\ UNCHANGED <<args, now, ticks, messages, lastMessageTime, shouldReconnect,
                   lastMessageTimestamp, processedMessages, catchUps, handled, missed>>
    /\ StreamUnchanged

\* A pending timeout fires, when its delay has passed: _connect().
TimeoutFires ==
    \E t \in timeouts :
        /\ now' = MathMax(now, t.at)
        /\ timeouts' = timeouts \ {t}
        /\ eventSource' = "connecting"
        /\ stream' = <<>>
        /\ UNCHANGED <<args, ticks, messages, lastMessageTime, reconnectAttempts, reconnectTimer,
                       shouldReconnect, lastMessageTimestamp, processedMessages, catchUps,
                       handled, scheduled, missed>>
        /\ StreamUnchanged

\* close()
Close ==
    /\ shouldReconnect' = FALSE
    /\ timeouts' = IF reconnectTimer # 0 THEN ClearTimeout(timeouts, reconnectTimer)
                   ELSE timeouts
    /\ reconnectTimer' = 0
    /\ eventSource' = IF eventSource = "none" THEN "none" ELSE "closed"
    /\ stream' = <<>>
    /\ args' = [fn |-> "close", pending |-> timeouts]
    /\ UNCHANGED <<now, ticks, messages, lastMessageTime, reconnectAttempts,
                   lastMessageTimestamp, processedMessages, catchUps, handled, scheduled,
                   missed>>
    /\ StreamUnchanged

\* POST /messages accepts a member's message: store.addMessage and
\* sseManager.broadcastMessage, which writes to the clients connected now.
Broadcast ==
    \E sender \in {"h1"} :
        LET id == Len(messages) + 1
        IN /\ id <= MaxStreamMessages
           /\ messages' = Append(messages, Msg(sender, SenderTypeOf(sender), now))
           /\ lastMessageTime' =
                [s \in (DOMAIN lastMessageTime) \cup {sender} |->
                    IF s = sender THEN now ELSE lastMessageTime[s]]
           /\ stream' = IF eventSource = "open" THEN Append(stream, id) ELSE stream
           /\ missed' = IF eventSource \in {"connecting", "closed"} /\ shouldReconnect
                           /\ HasBeenOpen
                        THEN missed \cup {id}
                        ELSE missed
           /\ UNCHANGED <<args, now, ticks, eventSource, reconnectAttempts, reconnectTimer,
                          shouldReconnect, lastMessageTimestamp, processedMessages, timeouts,
                          catchUps, handled, scheduled>>
           /\ StreamUnchanged

\* The next 'message' event of the stream reaches the listener.
StreamMessage ==
    /\ stream # <<>>
    /\ OnMessage(Received(messages, Head(stream)))
    /\ stream' = Tail(stream)
    /\ UNCHANGED <<args, now, ticks, messages, lastMessageTime, eventSource, reconnectAttempts,
                   reconnectTimer, shouldReconnect, timeouts, catchUps, scheduled, missed>>
    /\ StreamUnchanged

\* GET /messages?since=..&limit=20 is answered and _catchUpMessages goes on.
CatchUpMessages ==
    /\ catchUps # <<>>
    /\ LET ids == StoreGetMessages(messages, Head(catchUps), CatchUpLimit)
       IN CatchUpLoop([k \in 1..Len(ids) |-> Received(messages, ids[k])])
    /\ catchUps' = Tail(catchUps)
    /\ UNCHANGED <<args, now, ticks, messages, lastMessageTime, eventSource, reconnectAttempts,
                   reconnectTimer, shouldReconnect, timeouts, stream, scheduled, missed>>
    /\ StreamUnchanged

NextStream ==
    \/ TickStream
    \/ ConnectSSE
    \/ OnOpen
    \/ Len(scheduled) < MaxDrops /\ OnError
    \/ TimeoutFires
    \/ Close
    \/ Broadcast
    \/ StreamMessage
    \/ CatchUpMessages

SpecStream == InitStream /\ [][NextStream]_vars

\* The connection alone, without messages, for longer.
NextReconnect ==
    \/ ConnectSSE
    \/ OnOpen
    \/ Len(scheduled) < MaxScheduled /\ OnError
    \/ TimeoutFires
    \/ Close

SpecReconnect == InitStream /\ [][NextReconnect]_vars

(**************** the engine speaking through the ChatClient ****************)

\* onSpeak of startAccount awaits sendMessage and drops what it resolves with;
\* sendMessage never rejects, so neither does onSpeak.
OnSpeakThrows(sent) == FALSE

InitSpeak ==
    /\ now = EngineStart
    /\ InitServerSide
    /\ \E cooldown \in Cooldowns : InitEngine([enabled |-> TRUE, cooldown |-> cooldown])
    /\ InitConnector

TickSpeak ==
    /\ ticks < MaxSpeakTicks
    /\ InFlight < MaxInFlight
    /\ IntervalElapses
    /\ UNCHANGED <<limiterVars, storeVars, turnVars, connectorVars>>

\* await this.config.onSpeak(topic) settles: the requests of sendMessage have
\* been answered.
ClientSpeak ==
    \E first \in SendStatuses : \E retry \in SendStatuses :
        LET sent == SendMessage(first, retry) IN
        /\ retry = 201 \/ first = 429          \* a retry is made after a 429 only
        /\ SpeakDone(OnSpeakThrows(sent))
        /\ args' = [fn |-> "sendMessage", first |-> first]
        /\ ret' = [fn |-> "sendMessage", value |-> sent]
        /\ UNCHANGED <<now, ticks, limiterVars, storeVars, turnVars, connectorState, locals>>

NextSpeak == TickSpeak \/ StartEngine \/ StopEngine \/ Activity \/ Turn \/ Topic \/ ClientSpeak

SpecSpeak == InitSpeak /\ [][NextSpeak]_vars

(******************** the engines of one room's agents **********************)
\* Every agent of the room runs its own connector and its own ProactiveEngine.
\* The engine of Self is followed step by step; of the engines of the other
\* agents, locals keeps the dailyCount, each on the same calendar day as Self's.
FleetAgents == {"a2", "a3"}

RECURSIVE SumOf(_, _)
SumOf(f, S) ==
    IF S = {} THEN 0
    ELSE LET x == CHOOSE x \in S : TRUE IN f[x] + SumOf(f, S \ {x})

\* the proactive messages the room's engines have emitted today
EmittedToday == dailyCount + SumOf(locals, FleetAgents)

\* Late in a day: the other engines have spoken 19 times each, Self's engine 9
\* or 10 times, the last time a default cooldown ago.
InitFleet ==
    /\ now = EngineStart
    /\ InitServerSide
    /\ \E cooldown \in Cooldowns : config = [enabled |-> TRUE, cooldown |-> cooldown]
    /\ timer = FALSE
    /\ intervals = 0
    /\ dailyCount \in {maxDailyGlobal - 2 * maxDailyPerAgent - 1,
                       maxDailyGlobal - 2 * maxDailyPerAgent}
    /\ lastProactiveTime = now - DefaultCooldown
    /\ consecutiveNoReply = 0
    /\ lastDailyReset = Today(now)
    /\ inflight = [a \in Awaits |-> 0]
    /\ InitConnectorState
    /\ args = NoArgs
    /\ locals = [name \in FleetAgents |-> maxDailyPerAgent - 1]
    /\ ret = NoArgs

TickFleet ==
    /\ ticks < MaxFleetTicks
    /\ InFlight < MaxInFlight
    /\ IntervalElapses
    /\ UNCHANGED <<limiterVars, storeVars, turnVars, connectorVars>>

\* The engine of another agent emits a proactive message: its checkAndSpeak has
\* passed its own daily limit (and its cooldown, the idle check and the turn).
OtherSpeaks ==
    \E name \in FleetAgents :
        /\ ~DailyLimitReached(locals[name])
        /\ locals' = [locals EXCEPT ![name] = @ + 1]
        /\ UNCHANGED <<now, ticks, limiterVars, storeVars, turnVars, engineVars,
                       connectorState, args, ret>>

NextFleet ==
    TickFleet \/ StartEngine \/ StopEngine \/ Activity \/ Turn \/ Topic \/ Speak \/ OtherSpeaks

SpecFleet == InitFleet /\ [][NextFleet]_vars

(********************* the running connector's engine ***********************)
\* startAccount wires the engine to the client (onSpeak) and the client's stream
\* to the message handler. locals counts the proactive messages that the room
\* has stored since the last message of another participant.

InitWired ==
    /\ now = EngineStart
    /\ InitServerSide
    /\ \E cooldown \in Cooldowns : InitEngine([enabled |-> TRUE, cooldown |-> cooldown])
    /\ InitConnectorState
    /\ args = NoArgs
    /\ locals = 0
    /\ ret = NoArgs

TickWired ==
    /\ ticks < MaxWiredTicks
    /\ InFlight < MaxInFlight
    /\ IntervalElapses
    /\ UNCHANGED <<limiterVars, storeVars, turnVars, connectorVars>>

\* await this.config.onSpeak(topic) settles.
WiredSpeak ==
    \E first \in SendStatuses : \E retry \in SendStatuses :
        LET sent == SendMessage(first, retry) IN
        /\ retry = 201 \/ first = 429          \* a retry is made after a 429 only
        /\ SpeakDone(OnSpeakThrows(sent))
        /\ args' = [fn |-> "sendMessage", first |-> first]
        /\ ret' = [fn |-> "sendMessage", value |-> sent]
        /\ locals' = IF sent.success THEN locals + 1 ELSE locals
        /\ UNCHANGED <<now, ticks, limiterVars, storeVars, turnVars, connectorState>>

\* What POST /messages answers the handler's reply: stored, or no answer.
HandlerStatuses == {201, 0}

\* The stream delivers a message of another participant to the handler of
\* startAccount: the handler declines (shouldReply, the mention intelligence or
\* [SKIP]), or sends a reply and handles the result. It calls nothing of the
\* engine.
RoomMessage ==
    /\ \E replies \in BOOLEAN : \E first \in HandlerStatuses : \E random \in Randoms :
           /\ IF replies
              THEN HandleSendResult(SendMessage(first, first), random)
              ELSE UNCHANGED <<strategy, backoffMultiplier, rejections>>
           /\ args' = [fn |-> "onMessage", replies |-> replies]
    /\ locals' = 0
    /\ UNCHANGED <<now, ticks, limiterVars, storeVars, turnVars, engineVars, selfName,
                   clientVars, ret>>

NextWired ==
    TickWired \/ StartEngine \/ StopEngine \/ Activity \/ Turn \/ Topic \/ WiredSpeak \/ RoomMessage

SpecWired == InitWired /\ [][NextWired]_vars

(******************* the connector's message handler ************************)
\* The client calls the handler of startAccount for each new message and does
\* not wait for the promise it returns. locals holds the invocations that have
\* passed shouldReply and have not returned: the message's number, whether it
\* mentions the agent, and the await the invocation is at ("reply": building the
\* context, asking the mention intelligence and the model; "send": sendMessage).
HandlerInvocation(id, mentioned, pc) == [id |-> id, mentioned |-> mentioned, pc |-> pc]

\* the number of the last message the handler was called with
LastDelivered == IF args.fn = "onMessage" THEN args.id ELSE 0

InitHandler ==
    /\ InitOthers
    /\ InitConnectorState
    /\ args = NoArgs
    /\ locals = {}
    /\ ret = NoArgs

TickHandler ==
    /\ ticks < MaxHandlerTicks
    /\ \E d \in StepsRS : now' = now + d
    /\ ticks' = ticks + 1
    /\ UNCHANGED <<limiterVars, storeVars, turnVars, engineVars, connectorVars>>

\* A message of Alice arrives: the handler runs up to its first await.
HandlerBegins ==
    /\ LastDelivered < MaxDelivered
    /\ \E mentions \in {{}, {Self}} : \E random \in Randoms :
           LET id == LastDelivered + 1
               msg == ChatMessage(id, "Alice", "human", mentions, "none")
           IN /\ args' = [fn |-> "onMessage", id |-> id]
              /\ locals' = IF ShouldReply(strategy, msg, now, random)
                           THEN locals \cup {HandlerInvocation(id, IsMentioned(strategy, msg), "reply")}
                           ELSE locals
    /\ UNCHANGED <<connectorState, ret>>
    /\ OthersUnchanged

\* The mention intelligence and the model have answered: the invocation goes on
\* to send the reply, or returns (no response wanted, [SKIP], or an error).
HandlerGenerates ==
    /\ \E inv \in locals : \E replies \in BOOLEAN :
           /\ inv.pc = "reply"
           /\ locals' = (locals \ {inv}) \cup
                            (IF replies THEN {[inv EXCEPT !.pc = "send"]} ELSE {})
    /\ UNCHANGED <<connectorState, args, ret>>
    /\ OthersUnchanged

\* sendMessage has resolved: the result is handled and the invocation returns.
HandlerSent ==
    /\ \E inv \in locals : \E first \in HandlerStatuses : \E random \in Randoms :
           /\ inv.pc = "send"
           /\ HandleSendResult(SendMessage(first, first), random)
           /\ locals' = locals \ {inv}
           /\ ret' = [fn |-> "sendMessage", id |-> inv.id]
    /\ UNCHANGED <<selfName, args>>
    /\ OthersUnchanged

NextHandler == TickHandler \/ HandlerBegins \/ HandlerGenerates \/ HandlerSent

SpecHandler == InitHandler /\ [][NextHandler]_vars

(***************** several accounts in one process *************************)
\* startAccount runs once per configured account and constructs one ChatClient
\* each; the accounts here are connected to the same room. processedMessages is
\* a constant of the module chat-client.ts, so the one map serves every
\* instance; lastMessageTimestamp and the handler belong to the instance. Here
\* lastMessageTimestamp maps each account to its instance's field, handled notes
\* the account whose handler was called, and locals is the set of the
\* <<account, id>> whose message event has reached that account's listener.
Accounts == {"default", "second"}

AccountIds == 1..MaxAccountMessages

InitAccounts ==
    /\ now = 0
    /\ InitServerSide
    /\ InitEngine([enabled |-> FALSE, cooldown |-> DefaultCooldown])
    /\ InitReplyState
    /\ eventSource = "open"
    /\ reconnectAttempts = 0
    /\ reconnectTimer = 0
    /\ shouldReconnect = TRUE
    /\ lastMessageTimestamp = [account \in Accounts |-> 0]
    /\ processedMessages = <<>>
    /\ timeouts = {}
    /\ stream = <<>>
    /\ catchUps = <<>>
    /\ handled = <<>>
    /\ scheduled = <<>>
    /\ missed = {}
    /\ args = NoArgs
    /\ locals = {}
    /\ ret = NoArgs

\* The 'message' listener of one account's instance runs for message id.
AccountMessage ==
    \E account \in Accounts : \E id \in AccountIds :
        LET msg == [id |-> id, timestamp |-> now]
            c == Deliver([processed |-> processedMessages,
                          last |-> lastMessageTimestamp[account],
                          handled |-> <<>>], msg, now)
        IN /\ processedMessages' = c.processed
           /\ lastMessageTimestamp' = [lastMessageTimestamp EXCEPT ![account] = c.last]
           /\ handled' = handled \o [k \in 1..Len(c.handled) |->
                                        [id |-> c.handled[k].id, at |-> c.handled[k].at,
                                         account |-> account]]
           /\ locals' = locals \cup {<<account, id>>}
           /\ args' = [fn |-> "onMessage", account |-> account, id |-> id]
           /\ UNCHANGED <<now, ticks, limiterVars, storeVars, turnVars, engineVars, selfName,
                          strategy, backoffMultiplier, rejections, connectionVars, ret>>

TickAccounts ==
    /\ ticks < MaxAccountTicks
    /\ now' = now + 1000
    /\ ticks' = ticks + 1
    /\ UNCHANGED <<limiterVars, storeVars, turnVars, engineVars, connectorVars>>

NextAccounts == AccountMessage \/ TickAccounts

SpecAccounts == InitAccounts /\ [][NextAccounts]_vars

(***************************** properties **********************************)

\* The admissions of the history that lie in the trailing window at time t.
AdmittedInWindow(t) == SelectSeq(admitted, LAMBDA x : t - x < WindowMs)

\* A step that is a checkRateLimit call of an agent / of a human.
AgentCallStep == lastCall'.senderType = "agent" /\ now' = now
HumanCallStep == lastCall'.senderType = "human" /\ now' = now

\* The tokens identity s can spend at time t >= now, given only the stored buckets
\* (an identity without a bucket gets a full one at its first check).
Avail(buckets, s, t) ==
    IF s \in DOMAIN buckets
    THEN Min(BUCKET_CAPACITY * TokenScale,
             buckets[s].tokens + (t - buckets[s].lastRefill) * REFILL_RATE)
    ELSE BUCKET_CAPACITY * TokenScale

\* C1: no window of 60,000 ms holds more than 15 recorded agent admissions: the
\* history is in time order and any 16 consecutive admissions span at least 60,000 ms.
C1_GlobalWindowCap ==
    /\ \A i \in 1..(Len(admitted) - 1) : admitted[i] <= admitted[i + 1]
    /\ \A i \in 1..(Len(admitted) - MAX_AGENT_MESSAGES_PER_MINUTE) :
         admitted[i + MAX_AGENT_MESSAGES_PER_MINUTE] - admitted[i] >= WindowMs

\* The cap is met, after earlier admissions have already left the window.
C1_Witness ==
    /\ Len(admitted) > MAX_AGENT_MESSAGES_PER_MINUTE
    /\ Len(AdmittedInWindow(now)) = MAX_AGENT_MESSAGES_PER_MINUTE

\* C2: every bucket's token count is within [0, capacity].
C2_TokensInRange ==
    \A s \in DOMAIN tokenBuckets :
        /\ tokenBuckets[s].tokens >= 0
        /\ tokenBuckets[s].tokens <= BUCKET_CAPACITY * TokenScale

\* A drained bucket that a later refill (0 + 5.5 tokens) clamped at the capacity.
C2_Witness ==
    /\ Len(admitted) = BUCKET_CAPACITY
    /\ "a1" \in DOMAIN tokenBuckets
    /\ tokenBuckets["a1"].tokens = BUCKET_CAPACITY * TokenScale
    /\ tokenBuckets["a1"].lastRefill = 5500

\* C3: one identity is admitted at most 5 times at one instant and at most 5 + T
\* times in any span of T seconds (the only agent calling here is a1, so the
\* history is a1's).
C3_BurstBound ==
    \A i \in 1..Len(admitted) : \A j \in i..Len(admitted) :
        (j - i + 1) * TokenScale
            <= BUCKET_CAPACITY * TokenScale + (admitted[j] - admitted[i]) * REFILL_RATE

\* Five admissions at one instant, a sixth call rejected by the bucket, and a later
\* admission on refilled tokens.
C3_Witness ==
    /\ Len(admitted) > BUCKET_CAPACITY
    /\ admitted[BUCKET_CAPACITY] = admitted[1]
    /\ admitted[BUCKET_CAPACITY + 1] = admitted[1] + 500 + 500
    /\ lastCall.result.reason = "bucket"

\* C4: an agent call made while 15 admissions are recorded in the trailing 60 s is
\* rejected with the global reason, and its retryAfter is the time until the oldest
\* of them leaves the window, which is in (0, 60000].
C4_GlobalRejection ==
    [][ (AgentCallStep /\ Len(AdmittedInWindow(now)) >= MAX_AGENT_MESSAGES_PER_MINUTE)
        => /\ lastCall'.result.allowed = FALSE
           /\ lastCall'.result.reason = "global"
           /\ lastCall'.result.retryAfter = WindowMs - (now - AdmittedInWindow(now)[1])
           /\ lastCall'.result.retryAfter > 0
           /\ lastCall'.result.retryAfter <= WindowMs ]_vars

\* A global rejection 59 s after the oldest admission: retry after 1 s.
C4_Witness ==
    /\ lastCall.result.reason = "global"
    /\ lastCall.result.retryAfter = 1000
    /\ Len(AdmittedInWindow(now)) = MAX_AGENT_MESSAGES_PER_MINUTE
    /\ admitted[Len(admitted)] = now

\* C5: a human's call returns allowed without a reason and changes neither the
\* window nor any bucket.
C5_HumanPasses ==
    [][ HumanCallStep
        => /\ lastCall'.result = Allowed
           /\ agentMessageTimestamps' = agentMessageTimestamps
           /\ tokenBuckets' = tokenBuckets
           /\ admitted' = admitted ]_vars

\* A human's call with the window full, a1's bucket empty and the ratio exceeded.
C5_Witness ==
    /\ lastCall.senderType = "human"
    /\ lastCall.ratioExceeded
    /\ Len(PruneWindow(agentMessageTimestamps, now)) = MAX_AGENT_MESSAGES_PER_MINUTE
    /\ Avail(tokenBuckets, "a1", now) = 0

\* C6: the rejection is that of the first failing check in the order window,
\* bucket, ratio (a1 is the only agent calling here).
C6_FirstFailureWins ==
    [][ AgentCallStep
        => lastCall'.result.reason =
             IF Len(PruneWindow(agentMessageTimestamps, now)) >= MAX_AGENT_MESSAGES_PER_MINUTE
             THEN "global"
             ELSE IF Avail(tokenBuckets, "a1", now) < 1 * TokenScale THEN "bucket"
             ELSE IF lastCall'.ratioExceeded THEN "ratio"
             ELSE "none" ]_vars

\* A bucket rejection of a call whose messages exceed the ratio.
C6_Witness ==
    /\ lastCall.result.reason = "bucket"
    /\ lastCall.ratioExceeded

\* C7: a rejected agent call records no admission and leaves every identity's
\* spendable tokens as they were; an accepted one appends exactly its timestamp to
\* the pruned window and takes exactly one token, from one identity's bucket.
TokensKept(s) ==
    \A d \in {0, 500, 5000} : Avail(tokenBuckets', s, now + d) = Avail(tokenBuckets, s, now + d)

C7_AdmissionEffects ==
    [][ AgentCallStep
        => IF lastCall'.result.allowed
           THEN /\ agentMessageTimestamps' = Append(PruneWindow(agentMessageTimestamps, now), now)
                /\ \E s \in Agents :
                     /\ Avail(tokenBuckets', s, now) = Avail(tokenBuckets, s, now) - 1 * TokenScale
                     /\ \A o \in Identities \ {s} : TokensKept(o)
           ELSE /\ PruneWindow(agentMessageTimestamps', now) = PruneWindow(agentMessageTimestamps, now)
                /\ Len(agentMessageTimestamps') <= Len(agentMessageTimestamps)
                /\ \A s \in Identities : TokensKept(s) ]_vars

\* A ratio rejection of an identity whose stored bucket was refilled by the call,
\* while a second identity holds a partly spent bucket.
C7_Witness ==
    /\ lastCall.result.reason = "ratio"
    /\ \E s \in Agents : \E o \in Agents \ {s} :
         /\ s \in DOMAIN tokenBuckets /\ o \in DOMAIN tokenBuckets
         /\ tokenBuckets[s].lastRefill = now /\ now > 0
         /\ tokenBuckets[o].lastRefill < now
         /\ tokenBuckets[o].tokens < BUCKET_CAPACITY * TokenScale

\* The stored messages of the trailing 60 s at time t, and whether agent-authored
\* ones are more than 70% of them.
TrailingMessages(t) == SelectSeq(messages, LAMBDA m : t - m.timestamp < WindowMs)

AgentShareOver70(t) ==
    LET trailing == TrailingMessages(t)
        agents == Len(SelectSeq(trailing, LAMBDA m : m.senderType = "agent"))
    IN  agents * 10 > 7 * Len(trailing)

AgentMessageStored ==
    /\ Len(messages') = Len(messages) + 1
    /\ messages'[Len(messages')].senderType = "agent"

\* C8 as claimed: agent-authored messages are never more than 70% of the messages
\* stored in the trailing 60 s.
C8_RatioInvariant == ~AgentShareOver70(now)

\* C8 as amended: an agent's message is stored only when, before it is stored, the
\* agent-authored messages are at most 70% of the messages of the trailing 60 s
\* (which includes an empty trailing window).
C8_StoredBelowCap == [][ AgentMessageStored => ~AgentShareOver70(now) ]_vars

\* An agent message stored at a share of 2/3 that lifts the share to 3/4.
C8_Witness ==
    /\ response.status = 201
    /\ Len(messages) = 4
    /\ messages[4].senderType = "agent"
    /\ Len(TrailingMessages(now)) = 4
    /\ \E i \in 1..3 : messages[i].senderType = "human"
    /\ AgentShareOver70(now)

\* C9: a turn is granted only when no unexpired lock exists and then locks for
\* 30 s: at most one grant is unexpired, two grants are at least 30,000 ms apart,
\* and a request made while a lock is active, by anyone, is denied and leaves the
\* lock unchanged.
UnexpiredGrants == SelectSeq(grants, LAMBDA g : g + LockMs > now)

TurnRequestStep == turnResult'.agent # "none" /\ now' = now

C9_TurnLock ==
    /\ [](/\ Len(UnexpiredGrants) <= 1
          /\ \A i \in 1..(Len(grants) - 1) : grants[i + 1] - grants[i] >= LockMs)
    /\ [][ (TurnRequestStep /\ Len(UnexpiredGrants) = 1)
           => /\ turnResult'.granted = FALSE
              /\ proactiveLock' = proactiveLock
              /\ grants' = grants ]_vars
    /\ [][ (TurnRequestStep /\ Len(UnexpiredGrants) = 0)
           => /\ turnResult'.granted = TRUE
              /\ turnResult'.lockUntil = now + LockMs
              /\ proactiveLock' = [agent |-> turnResult'.agent, until |-> now + LockMs] ]_vars

\* The holder of a second grant is itself denied 29 s into its lock.
C9_Witness ==
    /\ Len(grants) = 2
    /\ turnResult.granted = FALSE
    /\ turnResult.agent = proactiveLock.agent
    /\ now = grants[2] + 29000


\* C10: within one calendar day the engine emits at most maxDailyPerAgent
\* proactive messages: dailyCount, which is reset when the day changes and raised
\* by one for each message sent, never exceeds the cap, also when invocations of
\* checkAndSpeak overlap.
C10_DailyCap == dailyCount <= maxDailyPerAgent


\* The call of shouldRespond has returned.
ShouldRespondReturned == ret.fn = "shouldRespond"

\* The rules of shouldRespond, stated on the arguments.
MIAgentReplies ==
    Cardinality({i \in DOMAIN args.recentMessages :
                    /\ args.recentMessages[i].replyTo = args.msg.id
                    /\ args.recentMessages[i].senderType = "agent"})
MentionsSelf == selfName \in args.msg.mentions
Saturated == MIAgentReplies >= 2
ThreadExcludesSelf ==
    /\ args.context.ongoingThread.present
    /\ selfName \notin args.context.ongoingThread.participants
NewcomerFirstMessage ==
    /\ \E i \in DOMAIN args.context.memberList :
           /\ args.context.memberList[i].name = args.msg.sender
           /\ args.context.memberList[i].isNew
           /\ \A j \in 1..(i - 1) : args.context.memberList[j].name # args.msg.sender
    /\ Cardinality({i \in DOMAIN args.recentMessages :
                       args.recentMessages[i].sender = args.msg.sender}) <= 1

\* C11: a trigger whose mentions contain the agent's name is answered with
\* respond = true, reason directly_mentioned and the trigger as reply target,
\* whatever the number of agent replies to it and whatever thread is going on.
C11_MentionOverridesSaturation ==
    (ShouldRespondReturned /\ MentionsSelf) =>
        ret.value = RespondDecision(TRUE, "directly_mentioned", args.msg.id)

\* A mentioned, saturated trigger during a thread without the agent was answered.
C11_Witness ==
    /\ ShouldRespondReturned
    /\ MentionsSelf
    /\ Saturated
    /\ ThreadExcludesSelf
    /\ ret.value.respond

\* C12: shouldRespond applies its five rules in strict priority order, first
\* match wins, and its result is determined by its arguments: the engine's only
\* field, the agent's name, is never written after construction.
C12_PriorityOrder ==
    /\ [](ShouldRespondReturned =>
            ret.value =
                IF MentionsSelf
                THEN RespondDecision(TRUE, "directly_mentioned", args.msg.id)
                ELSE IF Saturated
                THEN RespondDecision(FALSE, "reply_saturation", "none")
                ELSE IF ThreadExcludesSelf
                THEN RespondDecision(FALSE, "ongoing_thread", "none")
                ELSE IF NewcomerFirstMessage
                THEN RespondDecision(TRUE, "new_member_greeting", args.msg.id)
                ELSE RespondDecision(TRUE, "general", "none"))
    /\ [][selfName' = selfName /\ args' = args]_vars

\* Rules 2, 3 and 4 all matched and rule 2 decided.
C12_Witness ==
    /\ ShouldRespondReturned
    /\ ~MentionsSelf
    /\ Saturated
    /\ ThreadExcludesSelf
    /\ NewcomerFirstMessage
    /\ ret.value.reason = "reply_saturation"


\* A call of shouldReply has returned (shouldReply writes no field: the strategy
\* is as the call found it).
ShouldReplyReturned == ret.fn = "shouldReply"
OwnMessage == args.msg.sender = strategy.config.agentName
MentionBypass ==
    /\ strategy.config.mentionAlwaysReply
    /\ \E mention \in args.msg.mentions :
           ToLowerCase(mention) = ToLowerCase(strategy.config.agentName)
CooldownActive == now - strategy.lastReplyTime < strategy.currentCooldown

\* C13: shouldReply never accepts a message authored by the agent itself; with
\* mentionAlwaysReply it always accepts a message from someone else that mentions
\* the agent, also during a cooldown; any other message is refused while the
\* cooldown is active and is otherwise accepted exactly when Math.random() falls
\* below replyProbability (never when replyProbability is 0).
C13_ShouldReply ==
    ShouldReplyReturned =>
        /\ OwnMessage => ~ret.value
        /\ (~OwnMessage /\ MentionBypass) => ret.value
        /\ (~OwnMessage /\ ~MentionBypass /\ CooldownActive) => ~ret.value
        /\ (~OwnMessage /\ ~MentionBypass /\ ~CooldownActive) =>
               /\ ret.value <=> args.random < strategy.config.replyProbability
               /\ strategy.config.replyProbability = 0 => ~ret.value

\* A mention from someone else was accepted during an active cooldown.
C13_Witness ==
    /\ ShouldReplyReturned
    /\ ~OwnMessage
    /\ MentionBypass
    /\ CooldownActive
    /\ ret.value


\* The call of compressContext has returned.
CompressReturned == ret.fn = "compressContext"

\* C14: for every strategy and input, compressContext returns its messages in
\* non-decreasing timestamp order, and each of them is a message of the history
\* passed in or is the trigger.
C14_OrderedSubset ==
    CompressReturned =>
        /\ \A i \in 1..(Len(ret.value) - 1) :
               ret.value[i].timestamp <= ret.value[i + 1].timestamp
        /\ \A i \in DOMAIN ret.value :
               \/ ret.value[i] = args.trigger
               \/ \E j \in DOMAIN args.messages : ret.value[i] = args.messages[j]

\* An unsorted history came back, whole, in timestamp order.
C14_Witness ==
    /\ CompressReturned
    /\ Len(ret.value) >= 2
    /\ \E i \in 1..(Len(args.messages) - 1) :
           args.messages[i].timestamp > args.messages[i + 1].timestamp
    /\ \A j \in DOMAIN args.messages :
           \E i \in DOMAIN ret.value : ret.value[i] = args.messages[j]


\* The estimated token cost of a list of messages.
RECURSIVE TotalTokens(_)
TotalTokens(msgs) ==
    IF msgs = <<>> THEN 0
    ELSE (2 * msgs[1].content.cjkChars + msgs[1].content.nonCjkChars + 3) \div 4
         + TotalTokens(Tail(msgs))

\* C15: for every strategy and input, the estimated token costs of the messages
\* compressContext returns sum to at most the maxTokens the caller passed.
C15_WithinBudget ==
    CompressReturned => TotalTokens(ret.value) <= args.options.maxTokens


\* The trigger's own token cost is within the budget passed.
TriggerFits ==
    (2 * args.trigger.content.cjkChars + args.trigger.content.nonCjkChars + 3) \div 4
        <= args.options.maxTokens

\* C16: for every strategy, the trigger is among the messages returned whenever
\* its own token cost fits the budget, be it an element of the history or not.
C16_TriggerIncluded ==
    (CompressReturned /\ TriggerFits) =>
        \E i \in DOMAIN ret.value : ret.value[i] = args.trigger


\* The trigger's reply-ancestor chain in the history: the indices of the messages
\* reached from the message with id `id` by following replyTo, at most depth of them.
RECURSIVE AncestorsFrom(_, _, _)
AncestorsFrom(id, depth, seen) ==
    IF depth = 0 \/ id = "none" THEN seen
    ELSE IF \E i \in DOMAIN args.messages : args.messages[i].id = id
    THEN LET i == CHOOSE i \in DOMAIN args.messages :
                      /\ args.messages[i].id = id
                      /\ \A j \in 1..(i - 1) : args.messages[j].id # id
         IN IF i \in seen THEN seen
            ELSE AncestorsFrom(args.messages[i].replyTo, depth - 1, seen \cup {i})
    ELSE seen

TriggerInHistory == \E i \in DOMAIN args.messages : args.messages[i].id = args.trigger.id

\* The chain counts the trigger: five messages with it.
TriggerChain ==
    IF TriggerInHistory
    THEN AncestorsFrom(args.trigger.id, 5, {})
    ELSE AncestorsFrom(args.trigger.replyTo, 4, {})

RecentMentions ==
    {i \in DOMAIN args.messages :
        /\ args.messages[i].timestamp >= now - 300000
        /\ Self \in args.messages[i].mentions}

Returned(i) == \E k \in DOMAIN ret.value : ret.value[k] = args.messages[i]

\* The token cost of the returned messages among the history indices S.
RECURSIVE ReturnedCost(_)
ReturnedCost(S) ==
    IF S = {} THEN 0
    ELSE LET i == CHOOSE i \in S : TRUE IN
         (IF Returned(i) THEN TotalTokens(<<args.messages[i]>>) ELSE 0)
         + ReturnedCost(S \ {i})

\* A message of the history is left out only if it did not fit next to the
\* returned messages of the set S.
LeftOutOnlyFor(i, S) ==
    Returned(i) \/ ReturnedCost(S) + TotalTokens(<<args.messages[i]>>) > args.options.maxTokens

\* C17: with the hybrid strategy, a message of the trigger's reply-ancestor chain
\* is left out only if it did not fit next to the chain messages returned; a recent
\* message mentioning the agent only if it did not fit next to the chain and
\* mention messages returned; any other message only if it did not fit next to
\* all that is returned: a lower priority never takes the room of a higher one.
C17_HybridPriority ==
    (CompressReturned /\ args.options.strategy = "hybrid") =>
        /\ \A i \in TriggerChain : LeftOutOnlyFor(i, TriggerChain)
        /\ \A i \in RecentMentions : LeftOutOnlyFor(i, TriggerChain \cup RecentMentions)
        /\ \A i \in DOMAIN args.messages : LeftOutOnlyFor(i, DOMAIN args.messages)


\* The call of traceReplyChain has returned.
TraceReturned == ret.fn = "traceReplyChain"

\* The messages are the two that reply to each other, and the walk starts at msg2.
TwoCycleFromMsg2 ==
    /\ args.targetId = "msg2"
    /\ Len(args.messages) = 2
    /\ args.messages[1].id = "msg1" /\ args.messages[1].replyTo = "msg2"
    /\ args.messages[2].id = "msg2" /\ args.messages[2].replyTo = "msg1"

\* C18: traceReplyChain terminates on every reply graph, cyclic ones included: its
\* loop body is entered at most maxDepth times, the call returns, no message is
\* returned twice, the 2-cycle started at msg2 yields at most 2 messages, and a
\* start id that is not in the history yields the empty list.
C18_TraceTerminates ==
    /\ [](args.fn = "traceReplyChain" => locals.steps <= args.maxDepth)
    /\ <>TraceReturned
    /\ [](TraceReturned =>
            /\ Len(ret.value) <= args.maxDepth
            /\ \A i, j \in DOMAIN ret.value : i # j => ret.value[i] # ret.value[j]
            /\ TwoCycleFromMsg2 => Len(ret.value) <= 2
            /\ (\A k \in DOMAIN args.messages : args.messages[k].id # args.targetId)
                   => ret.value = <<>>)

\* The 2-cycle started at msg2 came back as its two messages.
C18_Witness ==
    /\ TraceReturned
    /\ TwoCycleFromMsg2
    /\ args.maxDepth = 5
    /\ Len(ret.value) = 2


RECURSIVE Doubled(_, _)
Doubled(base, k) == IF k = 0 THEN base ELSE 2 * Doubled(base, k - 1)

\* C20: getCurrentCooldown is min(baseCooldown * 2^k, 30 minutes) for the current
\* count k of consecutive checks without engagement: the base cooldown at k = 0
\* (if that is below the ceiling), twice as much, up to the ceiling, after each
\* increment of k, and never more than 1,800,000 ms.
C20_CurrentCooldown ==
    /\ [](/\ GetCurrentCooldown = IF Doubled(config.cooldown, consecutiveNoReply) < 1800000
                                  THEN Doubled(config.cooldown, consecutiveNoReply)
                                  ELSE 1800000
          /\ GetCurrentCooldown <= 1800000
          /\ (consecutiveNoReply = 0 /\ config.cooldown <= 1800000)
                 => GetCurrentCooldown = config.cooldown)
    /\ [][consecutiveNoReply' = consecutiveNoReply + 1 =>
             \/ GetCurrentCooldown' = 2 * GetCurrentCooldown
             \/ GetCurrentCooldown' = 1800000 /\ 2 * GetCurrentCooldown >= 1800000]_vars

\* Checks without engagement have pushed the cooldown of a 60 s base to the ceiling.
C20_Witness ==
    /\ ret.fn = "checkEngagement"
    /\ config.cooldown = 60000
    /\ consecutiveNoReply = 5
    /\ GetCurrentCooldown = 1800000


\* A step that is a call of checkEngagement: the call is recorded and neither the
\* clock nor an invocation of checkAndSpeak moves.
EngagementStep ==
    /\ ret'.fn = "checkEngagement"
    /\ args'.fn = "checkEngagement"
    /\ now' = now
    /\ inflight' = inflight
    /\ timer' = timer

\* a message of somebody else, later than the last proactive message
EngagedBy(recentMessages) ==
    \E i \in 1..Len(recentMessages) :
        /\ recentMessages[i].sender # selfName
        /\ recentMessages[i].timestamp > lastProactiveTime

\* C21: checkEngagement changes nothing when the agent has never spoken
\* proactively; otherwise it resets the no-engagement counter to 0 when some
\* message of another sender is later than the last proactive message, and else
\* adds exactly 1; the agent's own messages never count as engagement, and
\* nothing else of the engine changes.
C21_CheckEngagement ==
    [][EngagementStep =>
          /\ lastProactiveTime = 0 => consecutiveNoReply' = consecutiveNoReply
          /\ (lastProactiveTime # 0 /\ EngagedBy(args'.recentMessages))
                 => consecutiveNoReply' = 0
          /\ (lastProactiveTime # 0 /\ ~EngagedBy(args'.recentMessages))
                 => consecutiveNoReply' = consecutiveNoReply + 1
          /\ UNCHANGED <<config, dailyCount, lastProactiveTime, lastDailyReset>>]_vars

\* After a proactive message, a check that saw only the agent's own later message
\* has counted a second round without engagement.
C21_Witness ==
    /\ ret.fn = "checkEngagement"
    /\ lastProactiveTime # 0
    /\ Len(args.recentMessages) > 0
    /\ \A i \in 1..Len(args.recentMessages) :
           /\ args.recentMessages[i].sender = selfName
           /\ args.recentMessages[i].timestamp > lastProactiveTime
    /\ consecutiveNoReply = 2

\* the invocations in flight and, once one has returned, the last that did
Invocations == locals \cup (IF ret.fn = "checkAndSpeak" THEN {ret} ELSE {})

\* the invocation has asked the server for a speaking turn
TurnRequested(inv) == inv.pc \in {"turn", "topic", "speak"} \/ inv.granted # "none"

\* the invocation has called onSpeak with its topic
MessageEmitted(inv) == inv.pc = "speak" \/ inv.spoke # "none"

\* C22: on every tick the gates are taken in the order daily reset, daily cap,
\* cooldown, room idle, turn grant, topic, and the first that fails ends the
\* tick: a turn is requested only with the cap (after the reset) not reached,
\* the cooldown over and the room reported idle; a message is emitted only with
\* a turn granted and a topic that is not empty and has no [SKIP]; a gate is
\* asked only when all before it passed, and an invocation that has passed a
\* gate goes on to the next.
C22_GateOrder ==
    \A inv \in Invocations :
        /\ inv.inCooldown # "none" <=> inv.capReached = "no"
        /\ inv.isIdle # "none" => inv.inCooldown = "no"
        /\ (inv.pc = "activity" \/ inv.isIdle # "none")
               <=> (inv.capReached = "no" /\ inv.inCooldown = "no")
        /\ TurnRequested(inv)
               <=> (inv.capReached = "no" /\ inv.inCooldown = "no" /\ inv.isIdle = "yes")
        /\ (inv.pc = "topic" \/ inv.topic # "none")
               <=> (TurnRequested(inv) /\ inv.granted = "yes")
        /\ MessageEmitted(inv)
               <=> (TurnRequested(inv) /\ inv.granted = "yes" /\ inv.topic = "yes")
        /\ inv.pc = "done" =>
               \/ inv.capReached = "yes"
               \/ inv.inCooldown = "yes"
               \/ inv.isIdle \in {"no", "threw"}
               \/ inv.granted \in {"no", "threw"}
               \/ inv.topic \in {"no", "threw"}
               \/ inv.spoke \in {"yes", "threw"}

\* The second tick, at midnight, reset the count, passed every gate and has
\* emitted its message, the first of the new day.
C22_Witness ==
    /\ ret.fn = "checkAndSpeak"
    /\ ret.spoke = "yes"
    /\ ret.id = 2
    /\ dailyCount = 1
    /\ lastDailyReset = Today(EngineStart)

\* an awaited call of the invocation has failed
Threw(inv) == "threw" \in {inv.isIdle, inv.granted, inv.topic, inv.spoke}

\* C23: when the activity query, the turn request, the topic generation or the
\* speak callback fails, the tick ends there as a skip: the invocation returns
\* and asks nothing more, dailyCount and lastProactiveTime stay as they are, and
\* the timer stays set for the ticks to come.
C23_FailureIsSkip ==
    /\ [](\A inv \in locals : ~Threw(inv))
    /\ [][(ret' # ret /\ Threw(ret')) =>
              /\ ret'.pc = "done"
              /\ InFlight' = InFlight - 1
              /\ \/ ret'.isIdle = "threw" /\ ret'.granted = "none" /\ ret'.topic = "none"
                      /\ ret'.spoke = "none"
                 \/ ret'.granted = "threw" /\ ret'.topic = "none" /\ ret'.spoke = "none"
                 \/ ret'.topic = "threw" /\ ret'.spoke = "none"
                 \/ ret'.spoke = "threw"
              /\ UNCHANGED <<dailyCount, lastProactiveTime, lastDailyReset, timer, intervals>>]_vars

\* The speak callback of the second tick's invocation failed after an earlier
\* message: the count is still that one message and the timer is set.
C23_Witness ==
    /\ ret.fn = "checkAndSpeak"
    /\ ret.spoke = "threw"
    /\ dailyCount = 1
    /\ lastProactiveTime # 0
    /\ timer
    /\ intervals = 1

\* a step in which checkAndSpeak is called
TickInitiated ==
    \/ \E inv \in locals' : \A old \in locals : old.id # inv.id
    \/ ret' # ret /\ ret'.fn = "checkAndSpeak" /\ ret'.id = ticks' /\ ticks' # ticks
    \/ lastDailyReset' # lastDailyReset

\* C24: start() on a disabled engine sets no timer; start() on a running engine
\* sets no second one; stop() clears the timer and a second stop() changes
\* nothing; a stopped engine initiates no tick until it is started again.
C24_Lifecycle ==
    /\ [](/\ intervals = (IF timer THEN 1 ELSE 0)
          /\ ~config.enabled => ~timer)
    /\ [][/\ (args' # args /\ args'.fn = "start") =>
                 /\ timer' = (config.enabled \/ timer)
                 /\ intervals' = IF timer \/ ~config.enabled THEN intervals ELSE 1
          /\ (args' # args /\ args'.fn = "stop") =>
                 /\ ~timer'
                 /\ intervals' = 0
                 /\ ~timer => UNCHANGED engineVars
          /\ TickInitiated => timer /\ now' = now + checkInterval]_vars

\* The engine ran a tick, was stopped and then stopped once more: no timer is
\* left, and the clock has gone on without another tick.
C24_Witness ==
    /\ args = [fn |-> "stop", had |-> FALSE]
    /\ ret.fn = "checkAndSpeak"
    /\ ret.id < ticks
    /\ locals = {}
    /\ ~timer
    /\ intervals = 0

\* the length of the run of agent messages that ends at message i of the log
RECURSIVE AgentRunUpTo(_)
AgentRunUpTo(i) ==
    IF i = 0 \/ messages[i].senderType # "agent" THEN 0 ELSE 1 + AgentRunUpTo(i - 1)

\* C25: an agent's message without isMentionReply is rejected with 429 whenever
\* the 3 most recent stored messages are all by agents (no unflagged agent
\* message is appended to such a log, and a request that stores nothing is
\* answered 429), so every message of the log that is the fourth or a later one
\* of a run of agent messages came with isMentionReply.
C25_ConsecutiveAgents ==
    /\ [](\A i \in 1..Len(messages) : AgentRunUpTo(i) > 3 => locals[i])
    /\ [][/\ (/\ Len(messages') > Len(messages)
               /\ messages'[Len(messages')].senderType = "agent"
               /\ ~locals'[Len(messages')])
                  => AgentRunUpTo(Len(messages)) < 3
          /\ (response'.status # 0 /\ messages' = messages) => response'.status = 429
          /\ Len(messages') > Len(messages) => response'.status = 201]_vars

\* After three agent messages a minute apart, a fourth one was refused for the
\* run alone.
C25_Witness ==
    /\ response = Respond(429, "consecutive", -1)
    /\ Len(messages) = 3
    /\ AgentRunUpTo(3) = 3
    /\ locals = <<FALSE, FALSE, FALSE>>

\* message j of the log came less than 5 s after an earlier message of its sender
TooSoon(j) ==
    \E i \in 1..(j - 1) :
        /\ messages[i].sender = messages[j].sender
        /\ messages[j].timestamp - messages[i].timestamp < 5000

\* C26: two stored messages of the same sender are at least 5,000 ms apart, except
\* that an agent's message that came with isMentionReply may follow sooner; a
\* human's message never does, with or without the flag.
C26_SenderInterval ==
    \A j \in 1..Len(messages) :
        TooSoon(j) => (messages[j].senderType = "agent" /\ locals[j])

\* The human's second request, flagged isMentionReply, was refused within 5 s of
\* the first, while the agent's flagged message was stored right after its first.
C26_Witness ==
    /\ args = [fn |-> "postMessages", sender |-> "h1", isMentionReply |-> TRUE]
    /\ response.status = 429
    /\ response.error = "interval"
    /\ \E j \in 1..Len(messages) : TooSoon(j) /\ messages[j].sender = "a1"

\* C27: an agent's message sent with isMentionReply is never rejected with 429.
C27_MentionReplyBypass ==
    (/\ args.fn = "postMessages"
     /\ SenderTypeOf(args.sender) = "agent"
     /\ args.isMentionReply
     /\ response.status # 0)
        => response.status # 429

\* C28: a message whose id the client processed less than 5 minutes ago is never
\* passed to the message handler again, on the stream or in a catch-up: any two
\* calls of the handler for one id are at least MESSAGE_DEDUP_TTL apart.
C28_Dedup ==
    \A j \in 1..Len(handled) : \A i \in 1..(j - 1) :
        handled[i].id = handled[j].id => handled[j].at - handled[i].at >= MESSAGE_DEDUP_TTL

\* The map reached its cleanup size and was cleaned up, dropping the old entries.
\* The catch-up just answered held an id handled before, less than five minutes
\* ago, which was not handled again, and an old id that was.
C28_Witness ==
    /\ Cardinality(DOMAIN processedMessages) < Processed
    /\ args.fn = "_catchUpMessages"
    /\ \E x \in args.ids : \E j \in 2..Len(handled) :
           /\ handled[j].id = x
           /\ handled[j].at < now
           /\ now - handled[j].at < MESSAGE_DEDUP_TTL
           /\ \A k \in 1..Len(handled) : handled[k].id = x => handled[k].at # now
    /\ \E j \in 2..Len(handled) :
           /\ handled[j].id = 1
           /\ handled[j].at = now

\* The stream is open and nothing is on its way: no event written to it is unread
\* and no catch-up request awaits its answer.
Quiet == eventSource = "open" /\ stream = <<>> /\ catchUps = <<>>

Calls(id) == {k \in 1..Len(handled) : handled[k].id = id}

\* C29: after a reconnect every message stored while the client was disconnected
\* is delivered to the handler exactly once: when the stream is open again and
\* nothing is on its way, each such message has been handled once.
C29_CatchUp == Quiet => \A id \in missed : Cardinality(Calls(id)) = 1

\* the consecutive failures before the k-th entry of the history of reconnects
RECURSIVE FailuresBefore(_)
FailuresBefore(k) ==
    IF k = 1 \/ scheduled[k - 1] = 0 THEN 0 ELSE 1 + FailuresBefore(k - 1)

BackoffSeries == <<1000, 2000, 4000, 8000, 16000, 30000>>

\* C30: the reconnect scheduled after n consecutive failures has delay 1 s, 2 s,
\* 4 s, 8 s, 16 s, then 30 s; at most one reconnect timer is pending; the attempt
\* counter is the number of failures since the stream last opened, so 0 when it
\* opens; and once close() was called no timer is pending and no connection is
\* being made.
C30_Reconnect ==
    /\ \A k \in 1..Len(scheduled) :
           scheduled[k] # 0 => scheduled[k] = BackoffSeries[Min(FailuresBefore(k), 5) + 1]
    /\ Cardinality(timeouts) <= 1
    /\ reconnectAttempts = FailuresBefore(Len(scheduled) + 1)
    /\ ~shouldReconnect => timeouts = {} /\ eventSource \in {"none", "closed"}

\* After six failures in a row, the last with a delay of 30 s, the stream opened,
\* failed again with a delay of 1 s, and close() was called while that reconnect
\* was pending.
C30_Witness ==
    /\ Len(scheduled) = 8
    /\ scheduled[6] = maxReconnectDelay
    /\ scheduled[7] = 0
    /\ scheduled[8] = 1000
    /\ args.fn = "close"
    /\ args.pending # {}
    /\ timeouts = {}

\* the time a bucket needs from empty to full: ceil(capacity / rate) seconds
RefillFullMs == (BUCKET_CAPACITY * TokenScale) \div REFILL_RATE

\* the time one token needs
RefillOneMs == TokenScale \div REFILL_RATE

\* C34: at a check that reaches a1's bucket, the bucket holds its full capacity
\* when a1 has consumed nothing for 5 seconds (or never), whatever it held before,
\* and the bucket check passes when a1 has consumed nothing for 1 second.
C34_RefillToFull ==
    [][LET r == lastCall'.result
           seen == tokenBuckets'["a1"].tokens + (IF r.allowed THEN 1 * TokenScale ELSE 0)
       IN (lastCall'.senderType = "agent" /\ r.reason # "global") =>
              /\ (admitted = <<>> \/ now - admitted[Len(admitted)] >= RefillFullMs)
                     => seen = BUCKET_CAPACITY * TokenScale
              /\ (admitted # <<>> /\ now - admitted[Len(admitted)] >= RefillOneMs)
                     => r.reason # "bucket"]_vars

\* a1 drained its bucket with five admissions at one instant, and five and a half
\* seconds later is admitted from a full bucket.
C34_Witness ==
    /\ Len(admitted) = 6
    /\ admitted[5] = admitted[1]
    /\ admitted[6] = admitted[5] + RefillFullMs + 500
    /\ lastCall.result.allowed
    /\ tokenBuckets["a1"].tokens = (BUCKET_CAPACITY - 1) * TokenScale

C36_TooSmall ==
    (CompressReturned /\ ~TriggerFits) => Len(ret.value) <= 1

\* C38: a POST /messages that a later check refuses (the sender's 5-second
\* interval or the three-consecutive-agents rule) records no admission in the
\* limiter: no timestamp enters the global window and no token leaves the
\* sender's bucket.
C38_RejectionLeavesLimiter ==
    [][(response'.status = 429 /\ response'.error \in {"interval", "consecutive"}) =>
           /\ admitted' = admitted
           /\ Len(agentMessageTimestamps') <= Len(agentMessageTimestamps)
           /\ \A s \in DOMAIN tokenBuckets :
                  tokenBuckets'[s].tokens >= tokenBuckets[s].tokens]_vars

\* the stored messages less than a window old, of one sender type
TrailingOf(senderType) ==
    {i \in 1..Len(messages) :
        messages[i].senderType = senderType /\ now - messages[i].timestamp < WindowMs}

\* C40: when the limiter is asked about an agent and the trailing 60 seconds hold
\* agent messages but no human one, it refuses with the ratio cap and retryAfter
\* 5000 unless the global window or the bucket refuses first; when it admits an
\* agent, the trailing 60 seconds hold no message or at most 70% agent messages;
\* and the ratio cap never refuses when they hold no message.  (A step that moves
\* neither the clock nor the member list is a POST /messages.)
C40_RatioStarvation ==
    [][LET r == lastCall'.result
           agents == Cardinality(TrailingOf("agent"))
           humans == Cardinality(TrailingOf("human"))
       IN (now' = now /\ members' = members /\ lastCall'.senderType = "agent") =>
              /\ (agents >= 1 /\ humans = 0 /\ r.reason \notin {"global", "bucket"})
                     => r = Result(FALSE, "ratio", RatioRetryAfter)
              /\ r.allowed => (agents + humans = 0 \/ agents * 10 <= 7 * (agents + humans))
              /\ agents + humans = 0 => r.reason # "ratio"]_vars

\* The room's only messages are an agent's; 5 seconds after the first refusal the
\* agent is refused by the ratio cap again, and is told to retry in 5 seconds.
C40_Witness ==
    /\ messages # <<>>
    /\ \A i \in 1..Len(messages) : messages[i].senderType = "agent"
    /\ now - messages[Len(messages)].timestamp = RatioRetryAfter
    /\ response = Respond(429, "ratio", RatioRetryAfter)

\* C37: when the send of a proactive message failed (sendMessage resolved with
\* success = false), the tick counts as a skip: neither dailyCount nor
\* lastProactiveTime changes.
C37_FailedSendIsSkip ==
    [][(inflight'["speak"] < inflight["speak"] /\ ~ret'.value.success) =>
           /\ dailyCount' = dailyCount
           /\ lastProactiveTime' = lastProactiveTime]_vars

\* C31: on one calendar day the engines of the room's agents emit at most
\* maxDailyGlobal (50) proactive messages between them.
C31_GlobalDailyCap == EmittedToday <= maxDailyGlobal

\* C32: in the running connector, an invocation of checkAndSpeak passes the
\* cooldown test only when the base cooldown, doubled for each proactive message
\* stored since the last message of another participant (30 minutes at most),
\* has elapsed since the last proactive message.
C32_EngagementBackoff ==
    [][(now' > now /\ inflight'["activity"] > inflight["activity"]) =>
           now' - lastProactiveTime >= Min(config.cooldown * Pow2(locals), MaxCooldown)]_vars

\* C33: the handling of one message does not interleave with the handling of
\* another: of the messages that do not mention the agent, at most one is being
\* replied to (has passed shouldReply and its handler has not returned) at a time.
C33_Serialized ==
    Cardinality({inv \in locals : ~inv.mentioned}) <= 1

\* C39: every account's instance hands each message that reaches its listener to
\* its own handler exactly once, whatever the other instances have received.
C39_PerInstanceDelivery ==
    \A receipt \in locals :
        Cardinality({k \in 1..Len(handled) :
                        handled[k].account = receipt[1] /\ handled[k].id = receipt[2]}) = 1
====
